---- MODULE Spec2Model ----
(***************************************************************************)
(* State-machine model of the MongoDB manager console (React client).      *)
(* Each screen is a component with its own state; the backend is an        *)
(* external collaborator whose answers are chosen nondeterministically.    *)
(* A handler runs atomically up to its next await; a response step is the  *)
(* arrival of the answer together with the continuation that consumes it.  *)
(***************************************************************************)
EXTENDS Integers, Sequences, FiniteSets, TLC

VARIABLES
    screen,             \* which screen of the console is mounted
    \* ---- backend stores (external collaborator)
    fsStore,            \* backup names held by the filesystem store
    dbStore,            \* backup names held by the database store
    \* ---- BackupManager (src/unnamed/part_000, lines 16-432)
    bm_backups,         \* useState backups: list of backup names, as displayed
    bm_backupSources,   \* useState backupSources: name -> {file_system, database}
    bm_loading,         \* useState loading
    bm_fetch,           \* fetchBackups invocations in flight
    bm_lastLists,       \* history: the names in the two list answers of the last publication
    bm_confirm,         \* window.confirm dialog of handleDeleteBackup, when open
    bm_delete,          \* the handleDeleteBackup invocation in flight, its calls and their answers
    bm_report,          \* history: the last outcome handleDeleteBackup reported
    bm_cm,              \* databases, showCreateModal, CreateBackupModal fields, create calls
    \* ---- RestoreDatabase / RestoreCollections (src/client/src/features/confirmationModal.js)
    rd,                 \* the component's props and useState fields, its calls in flight
                        \* (restoreCalls counts the restore calls sent and not yet answered,
                        \* restored is the handle of the last restore that succeeded, kept
                        \* while a reset timer is pending)
    \* ---- Restore (src/client/src/components/restore/Restore.js)
    mf,                 \* the component's useState fields, its handleRestore run in flight
                        \* (runs counts the handleRestore runs started and not yet ended,
                        \* lastResults is restoreResults.length of the run that ended last)
    \* ---- Sidebar (src/unnamed/part_001) and its CopyCollectionModal
    sb,                 \* Sidebar: databases, modalState, copyModalState, calls in flight
    cp,                 \* CopyCollectionModal: useState fields, its copy call in flight
    \* ---- DatabaseCard (src/client/src/components/DatabaseCard.js), parent of the modal too
    dc,                 \* DatabaseCard: collections, allDatabases, copy modal state, calls
    \* ---- Main (src/client/src/pages/Main.js): the connection form
    mn,                 \* Main: serverUrl, isConnecting, isConnected, its connect run in flight
    \* ---- BackUp (src/client/src/components/backup/BackUp.js)
    bu                  \* BackUp: selection state, activeView, its handleBackup run in flight

bmVars == <<fsStore, dbStore, bm_backups, bm_backupSources, bm_loading, bm_fetch,
            bm_lastLists, bm_confirm, bm_delete, bm_report, bm_cm>>

vars == <<screen, bmVars, rd, mf, sb, cp, dc, mn, bu>>

\* what a handler of one screen leaves alone: the other screens
notBM == <<screen, rd, mf, sb, cp, dc, mn, bu>>
notRD == <<screen, bmVars, mf, sb, cp, dc, mn, bu>>
notMF == <<screen, bmVars, rd, sb, cp, dc, mn, bu>>
notSB == <<screen, bmVars, rd, mf, dc, mn, bu>>
notDC == <<screen, bmVars, rd, mf, sb, mn, bu>>
notCP == <<screen, bmVars, rd, mf, mn, bu>>
notMN == <<screen, bmVars, rd, mf, sb, cp, dc, bu>>
notBU == <<screen, bmVars, rd, mf, sb, cp, dc, mn>>

-----------------------------------------------------------------------------
\* Bounds of the model
MaxFetch == 1       \* fetchBackups invocations that may overlap

\* Small universes
BackupNames == {"b1", "b2"}
CreatedAt(n) == IF n = "b1" THEN 1 ELSE 2

NoConfirm == [open |-> FALSE]
NoLists == [published |-> FALSE]
NoReport == [kind |-> "none"]
Idle == [pc |-> "idle"]
NoCreated == [on |-> FALSE]
Unmounted == [mounted |-> FALSE]

-----------------------------------------------------------------------------
\* Generic helpers
Range(s) == {s[i] : i \in DOMAIN s}

\* every order in which a store can list the names it holds
Orderings(S) ==
    {s \in [1..Cardinality(S) -> S] : \A i, j \in 1..Cardinality(S) : s[i] = s[j] => i = j}

\* Array.prototype.findIndex(b => b.name === n) >= 0
FindIndexFound(list, n) == \E i \in DOMAIN list : list[i] = n

RECURSIVE InsertByDate(_, _)
InsertByDate(sorted, n) ==
    IF sorted = <<>> THEN <<n>>
    ELSE IF CreatedAt(Head(sorted)) >= CreatedAt(n)
         THEN <<Head(sorted)>> \o InsertByDate(Tail(sorted), n)
         ELSE <<n>> \o sorted

SortSkipped(list) == list

\* allBackups.sort((a, b) => new Date(b.created_at) - new Date(a.created_at)): stable, newest first
RECURSIVE SortNewestFirst(_)
SortNewestFirst(list) ==
    IF list = <<>> THEN <<>>
    ELSE InsertByDate(SortNewestFirst(SubSeq(list, 1, Len(list) - 1)), list[Len(list)])

-----------------------------------------------------------------------------
\* BackupManager.fetchBackups

EmptySources == [n \in {} |-> [file_system |-> FALSE, database |-> FALSE]]

\* fileSystemData.backups.forEach(backup => backupSources[backup.name] = {true, false})
MarkFileSystem(list) == [n \in Range(list) |-> [file_system |-> TRUE, database |-> FALSE]]

\* one iteration of databaseData.backups.forEach, on the pair <<allBackups, backupSources>>
MergeOneBroken(acc, n) ==
    [all |-> IF FindIndexFound(acc.all, n) THEN acc.all ELSE Append(acc.all, n),
     src |-> [m \in DOMAIN acc.src \cup {n} |->
                IF m = n THEN [file_system |-> FALSE, database |-> TRUE] ELSE acc.src[m]]]

MergeOne(acc, n) ==
    IF FindIndexFound(acc.all, n)
    THEN [all |-> acc.all,
          src |-> [m \in DOMAIN acc.src \cup {n} |->
                     IF m = n THEN [file_system |-> TRUE, database |-> TRUE] ELSE acc.src[m]]]
    ELSE [all |-> Append(acc.all, n),
          src |-> [m \in DOMAIN acc.src \cup {n} |->
                     IF m = n THEN [file_system |-> FALSE, database |-> TRUE] ELSE acc.src[m]]]

RECURSIVE MergeDatabase(_, _)
MergeDatabase(acc, dbList) ==
    IF dbList = <<>> THEN acc
    ELSE MergeDatabase(MergeOne(acc, Head(dbList)), Tail(dbList))

FreeFetchSlots == {t \in 1..MaxFetch : bm_fetch[t] = Idle}
FirstFreeFetch == CHOOSE t \in FreeFetchSlots : \A u \in FreeFetchSlots : t <= u

\* fetchBackups() up to its first await: setLoading(true), GET /api/backup/list
StartFetch(t) ==
    /\ bm_fetch' = [bm_fetch EXCEPT ![t] = [pc |-> "fs", fsOk |-> FALSE, fsList |-> <<>>,
                                            allBackups |-> <<>>, backupSources |-> EmptySources]]
    /\ bm_loading' = TRUE

\* the Refresh button
BM_Refresh ==
    /\ screen = "backups"
    /\ UNCHANGED <<notBM, bm_cm>>
    /\ ~bm_confirm.open
    /\ ~bm_cm.showCreateModal
    /\ FreeFetchSlots # {}
    /\ StartFetch(FirstFreeFetch)
    /\ UNCHANGED <<fsStore, dbStore, bm_backups, bm_backupSources, bm_lastLists,
                   bm_confirm, bm_delete, bm_report>>

\* the filesystem list call is answered with a usable body
BM_FsListOk(t) ==
    /\ screen = "backups"
    /\ UNCHANGED <<notBM, bm_cm>>
    /\ ~bm_confirm.open
    /\ bm_fetch[t].pc = "fs"
    /\ \E list \in Orderings(fsStore) :
          bm_fetch' = [bm_fetch EXCEPT ![t] = [pc |-> "db", fsOk |-> TRUE, fsList |-> list,
                                                  allBackups |-> list,
                                                  backupSources |-> MarkFileSystem(list)]]
    /\ UNCHANGED <<fsStore, dbStore, bm_backups, bm_backupSources, bm_loading, bm_lastLists,
                   bm_confirm, bm_delete, bm_report>>

\* the filesystem list call is answered non-OK, or with success=false / no backups field
BM_FsListBad(t) ==
    /\ screen = "backups"
    /\ UNCHANGED <<notBM, bm_cm>>
    /\ ~bm_confirm.open
    /\ bm_fetch[t].pc = "fs"
    /\ bm_fetch' = [bm_fetch EXCEPT ![t].pc = "db"]
    /\ UNCHANGED <<fsStore, dbStore, bm_backups, bm_backupSources, bm_loading, bm_lastLists,
                   bm_confirm, bm_delete, bm_report>>

\* the filesystem list call rejects: outer catch logs, finally setLoading(false)
BM_FsListReject(t) ==
    /\ screen = "backups"
    /\ UNCHANGED <<notBM, bm_cm>>
    /\ ~bm_confirm.open
    /\ bm_fetch[t].pc = "fs"
    /\ bm_fetch' = [bm_fetch EXCEPT ![t] = Idle]
    /\ bm_loading' = FALSE
    /\ UNCHANGED <<fsStore, dbStore, bm_backups, bm_backupSources, bm_lastLists,
                   bm_confirm, bm_delete, bm_report>>

\* sort, setBackups, setBackupSources, finally setLoading(false)
Publish(t, acc, dbOk, dbList) ==
    /\ bm_backups' = SortNewestFirst(acc.all)
    /\ bm_backupSources' = acc.src
    /\ bm_loading' = FALSE
    /\ bm_lastLists' = [published |-> TRUE, fsOk |-> bm_fetch[t].fsOk, dbOk |-> dbOk,
                        fs |-> Range(bm_fetch[t].fsList), db |-> Range(dbList)]
    /\ bm_fetch' = [bm_fetch EXCEPT ![t] = Idle]
    /\ bm_cm' = IF bm_cm.created.on THEN [bm_cm EXCEPT !.created.stale = @ \ {t}] ELSE bm_cm

\* the database list call is answered with a usable body
BM_DbListOk(t) ==
    /\ screen = "backups"
    /\ UNCHANGED notBM
    /\ ~bm_confirm.open
    /\ bm_fetch[t].pc = "db"
    /\ \E list \in Orderings(dbStore) :
          Publish(t, MergeDatabase([all |-> bm_fetch[t].allBackups,
                                    src |-> bm_fetch[t].backupSources], list), TRUE, list)
    /\ UNCHANGED <<fsStore, dbStore, bm_confirm, bm_delete, bm_report>>

BM_DbListFailDropsAll(t) ==
    /\ screen = "backups"
    /\ UNCHANGED notBM
    /\ ~bm_confirm.open
    /\ bm_fetch[t].pc = "db"
    /\ Publish(t, [all |-> <<>>, src |-> EmptySources], FALSE, <<>>)
    /\ UNCHANGED <<fsStore, dbStore, bm_confirm, bm_delete, bm_report>>

\* the database list call is answered non-OK or unusable, or rejects (inner catch logs)
BM_DbListFail(t) ==
    /\ screen = "backups"
    /\ UNCHANGED notBM
    /\ ~bm_confirm.open
    /\ bm_fetch[t].pc = "db"
    /\ Publish(t, [all |-> bm_fetch[t].allBackups, src |-> bm_fetch[t].backupSources],
               FALSE, <<>>)
    /\ UNCHANGED <<fsStore, dbStore, bm_confirm, bm_delete, bm_report>>

-----------------------------------------------------------------------------
\* BackupManager.handleDeleteBackup

\* deletePromises as handleDeleteBackup builds it: one fetch per store whose flag is truthy,
\* each with confirm: true in its body
DeletePromisesBothStores(hasFileSystem, hasDatabase) ==
    <<[source |-> "file_system", confirm |-> TRUE, st |-> "pending"],
      [source |-> "database", confirm |-> TRUE, st |-> "pending"]>>

DeletePromises(hasFileSystem, hasDatabase) ==
    (IF hasFileSystem
     THEN <<[source |-> "file_system", confirm |-> TRUE, st |-> "pending"]>> ELSE <<>>)
    \o (IF hasDatabase
        THEN <<[source |-> "database", confirm |-> TRUE, st |-> "pending"]>> ELSE <<>>)

AnyRejected(promises) == \E i \in DOMAIN promises : promises[i].st = "reject"
AnyPending(promises) == \E i \in DOMAIN promises : promises[i].st = "pending"
AllOk(promises) == \A i \in DOMAIN promises : promises[i].st = "ok"

\* what handleDeleteBackup reports once Promise.all settles
DeleteOutcome(promises) ==
    IF AnyRejected(promises) THEN "failed"          \* catch: alert('Delete failed: ...')
    ELSE IF AllOk(promises) THEN "success"          \* allSuccessful
    ELSE "partial"                                  \* alert('Delete partially failed: ...')

\* whether the reporting branch calls fetchBackups()
RefreshesAfter(kind) == kind \in {"success", "partial"}

\* click on the trash button of a listed backup (the table is rendered only while
\* loading is false): window.confirm opens
BM_DeleteClick(n) ==
    /\ screen = "backups"
    /\ UNCHANGED <<notBM, bm_cm>>
    /\ ~bm_confirm.open
    /\ ~bm_cm.showCreateModal
    /\ ~bm_loading
    /\ bm_delete = Idle
    /\ FindIndexFound(bm_backups, n)
    /\ bm_confirm' = [open |-> TRUE, name |-> n,
                      hasFileSystem |-> n \in DOMAIN bm_backupSources
                                         /\ bm_backupSources[n].file_system,
                      hasDatabase |-> n \in DOMAIN bm_backupSources
                                       /\ bm_backupSources[n].database]
    /\ UNCHANGED <<fsStore, dbStore, bm_backups, bm_backupSources, bm_loading, bm_fetch,
                   bm_lastLists, bm_delete, bm_report>>

\* window.confirm answered Cancel: the handler ends
BM_ConfirmCancel ==
    /\ screen = "backups"
    /\ UNCHANGED <<notBM, bm_cm>>
    /\ bm_confirm.open
    /\ bm_confirm' = NoConfirm
    /\ UNCHANGED <<fsStore, dbStore, bm_backups, bm_backupSources, bm_loading, bm_fetch,
                   bm_lastLists, bm_delete, bm_report>>

\* window.confirm answered OK: the per-store DELETE calls are issued
BM_ConfirmAccept ==
    /\ screen = "backups"
    /\ UNCHANGED <<notBM, bm_cm>>
    /\ bm_confirm.open
    /\ bm_delete' = [pc |-> "run", name |-> bm_confirm.name,
                     hasFileSystem |-> bm_confirm.hasFileSystem,
                     hasDatabase |-> bm_confirm.hasDatabase,
                     promises |-> DeletePromises(bm_confirm.hasFileSystem, bm_confirm.hasDatabase),
                     reported |-> FALSE]
    /\ bm_confirm' = NoConfirm
    /\ UNCHANGED <<fsStore, dbStore, bm_backups, bm_backupSources, bm_loading, bm_fetch,
                   bm_lastLists, bm_report>>

\* a task whose outcome was reported and whose calls are all answered leaves its slot
Retire(task) == IF task.reported /\ ~AnyPending(task.promises) THEN Idle ELSE task

\* one DELETE call is answered: "ok" (copy removed), "err" (non-OK response, copy kept)
\* or "reject" (the request never reached the store)
BM_DeleteResponse(i, outcome) ==
    /\ screen = "backups"
    /\ UNCHANGED notBM
    /\ ~bm_confirm.open
    /\ bm_delete # Idle
    /\ i \in DOMAIN bm_delete.promises
    /\ bm_delete.promises[i].st = "pending"
    /\ bm_delete' = Retire([bm_delete EXCEPT !.promises[i].st = outcome])
    /\ bm_cm' = IF outcome = "ok" /\ bm_cm.created.on /\ bm_cm.created.name = bm_delete.name
                THEN [bm_cm EXCEPT !.created = NoCreated] ELSE bm_cm
    /\ IF outcome = "ok" /\ bm_delete.promises[i].source = "file_system"
       THEN fsStore' = fsStore \ {bm_delete.name} ELSE fsStore' = fsStore
    /\ IF outcome = "ok" /\ bm_delete.promises[i].source = "database"
       THEN dbStore' = dbStore \ {bm_delete.name} ELSE dbStore' = dbStore
    /\ UNCHANGED <<bm_backups, bm_backupSources, bm_loading, bm_fetch, bm_lastLists,
                   bm_confirm, bm_report>>

\* Promise.all settles (all fulfilled, or the first rejection): results loop, alert, refresh
BM_DeleteSettle ==
    /\ screen = "backups"
    /\ UNCHANGED <<notBM, bm_cm>>
    /\ ~bm_confirm.open
    /\ bm_delete # Idle
    /\ ~bm_delete.reported
    /\ AnyRejected(bm_delete.promises) \/ ~AnyPending(bm_delete.promises)
    /\ LET task == bm_delete
           kind == DeleteOutcome(task.promises)
       IN /\ bm_report' = [kind |-> kind, refreshed |-> RefreshesAfter(kind)]
          /\ bm_delete' = Retire([task EXCEPT !.reported = TRUE])
          /\ IF RefreshesAfter(kind)
             THEN FreeFetchSlots # {} /\ StartFetch(FirstFreeFetch)
             ELSE UNCHANGED <<bm_fetch, bm_loading>>
    /\ UNCHANGED <<fsStore, dbStore, bm_backups, bm_backupSources, bm_lastLists, bm_confirm>>

-----------------------------------------------------------------------------
\* BackupManager.fetchDatabases, CreateBackupModal and BackupManager.handleCreateBackup

MaxCreate == 1      \* create-backup calls submitted in one run

\* data.databases of a database list answer, as BackupManager receives it
BMDbLists == {<<>>, <<"sales">>}

\* the database list call of fetchDatabases is answered with success and a databases field
BM_DatabasesOk(list) ==
    /\ screen = "backups"
    /\ UNCHANGED notBM
    /\ ~bm_confirm.open
    /\ bm_cm.dbFetch
    /\ bm_cm' = [bm_cm EXCEPT !.databases = list, !.dbFetch = FALSE]
    /\ UNCHANGED <<fsStore, dbStore, bm_backups, bm_backupSources, bm_loading, bm_fetch,
                   bm_lastLists, bm_confirm, bm_delete, bm_report>>

\* the call is answered non-OK or without success, or rejects (logged)
BM_DatabasesFail ==
    /\ screen = "backups"
    /\ UNCHANGED notBM
    /\ ~bm_confirm.open
    /\ bm_cm.dbFetch
    /\ bm_cm' = [bm_cm EXCEPT !.dbFetch = FALSE]
    /\ UNCHANGED <<fsStore, dbStore, bm_backups, bm_backupSources, bm_loading, bm_fetch,
                   bm_lastLists, bm_confirm, bm_delete, bm_report>>

\* the "Create Backup" button: setShowCreateModal(true) mounts the modal
BM_OpenCreateModal ==
    /\ screen = "backups"
    /\ UNCHANGED notBM
    /\ ~bm_confirm.open
    /\ ~bm_cm.showCreateModal
    /\ bm_cm' = [bm_cm EXCEPT !.showCreateModal = TRUE]
    /\ UNCHANGED <<fsStore, dbStore, bm_backups, bm_backupSources, bm_loading, bm_fetch,
                   bm_lastLists, bm_confirm, bm_delete, bm_report>>

\* the Cancel button: onClose unmounts the modal
CM_Cancel ==
    /\ screen = "backups"
    /\ UNCHANGED notBM
    /\ ~bm_confirm.open
    /\ bm_cm.showCreateModal
    /\ bm_cm' = [bm_cm EXCEPT !.showCreateModal = FALSE]
    /\ UNCHANGED <<fsStore, dbStore, bm_backups, bm_backupSources, bm_loading, bm_fetch,
                   bm_lastLists, bm_confirm, bm_delete, bm_report>>

\* The fields of the modal (selectedDb, backupToFileSystem, backupToDatabase) are local to
\* the mounted modal and are read only by handleSubmit; every combination of them can be
\* set while the modal is open, so they enter handleSubmit as its inputs.

\* the destinations object handleSubmit passes to onCreateBackup
Destinations(backupToFileSystem, backupToDatabase) ==
    [toFileSystem |-> backupToFileSystem, toDatabase |-> backupToDatabase]

SwappedRequestBody(databaseName, destinations) ==
    [database_name |-> databaseName,
     options |-> [destinations |-> [toFileSystem |-> destinations.toDatabase,
                                    toDatabase |-> destinations.toFileSystem]]]

\* requestBody of handleCreateBackup (connection_string is a constant of the component,
\* backup_name is the typed name or absent)
RequestBody(databaseName, destinations) ==
    [database_name |-> databaseName,
     options |-> [destinations |-> [toFileSystem |-> destinations.toFileSystem,
                                    toDatabase |-> destinations.toDatabase]]]

\* the form is submitted: handleSubmit, then handleCreateBackup up to its await.
\* The select is required and offers the listed databases.
CM_Submit(selectedDb, backupToFileSystem, backupToDatabase) ==
    /\ screen = "backups"
    /\ UNCHANGED notBM
    /\ ~bm_confirm.open
    /\ bm_cm.showCreateModal
    /\ selectedDb \in Range(bm_cm.databases)
    /\ IF ~backupToFileSystem /\ ~backupToDatabase
       THEN UNCHANGED bm_cm         \* alert('Please select at least one backup destination.')
       ELSE /\ bm_cm.submitted < MaxCreate
            /\ LET destinations == Destinations(backupToFileSystem, backupToDatabase)
               IN bm_cm' = [bm_cm EXCEPT
                               !.submitted = @ + 1,
                               !.calls = Append(@, [chosen |-> destinations,
                                                    body |-> RequestBody(selectedDb, destinations)])]
    /\ UNCHANGED <<fsStore, dbStore, bm_backups, bm_backupSources, bm_loading, bm_fetch,
                   bm_lastLists, bm_confirm, bm_delete, bm_report>>

\* a create call is answered OK: the store has written the new artifact n to the requested
\* destinations; alert, fetchBackups(), setShowCreateModal(false)
BM_CreateOk(i, n) ==
    /\ screen = "backups"
    /\ UNCHANGED notBM
    /\ ~bm_confirm.open
    /\ i \in DOMAIN bm_cm.calls
    /\ n \notin fsStore \cup dbStore
    /\ LET d == bm_cm.calls[i].body.options.destinations
       IN /\ fsStore' = IF d.toFileSystem THEN fsStore \cup {n} ELSE fsStore
          /\ dbStore' = IF d.toDatabase THEN dbStore \cup {n} ELSE dbStore
          /\ bm_cm' = [bm_cm EXCEPT
                          !.showCreateModal = FALSE,
                          !.calls = SubSeq(@, 1, i - 1) \o SubSeq(@, i + 1, Len(@)),
                          !.created = [on |-> TRUE, name |-> n,
                                       stale |-> {t \in 1..MaxFetch : bm_fetch[t].pc = "db"}]]
    /\ FreeFetchSlots # {}
    /\ StartFetch(FirstFreeFetch)
    /\ UNCHANGED <<bm_backups, bm_backupSources, bm_lastLists, bm_confirm, bm_delete, bm_report>>

\* a create call is answered non-OK or rejects: alert('Backup failed: ...')
BM_CreateFail(i) ==
    /\ screen = "backups"
    /\ UNCHANGED notBM
    /\ ~bm_confirm.open
    /\ i \in DOMAIN bm_cm.calls
    /\ bm_cm' = [bm_cm EXCEPT !.calls = SubSeq(@, 1, i - 1) \o SubSeq(@, i + 1, Len(@))]
    /\ UNCHANGED <<fsStore, dbStore, bm_backups, bm_backupSources, bm_loading, bm_fetch,
                   bm_lastLists, bm_confirm, bm_delete, bm_report>>

\* the state of the create modal and of fetchDatabases right after mount
InitCM ==
    [databases |-> <<>>, dbFetch |-> TRUE, showCreateModal |-> FALSE, calls |-> <<>>, submitted |-> 0,
     created |-> NoCreated]

-----------------------------------------------------------------------------
\* BackupManager: specification

\* after mount: useEffect has called fetchBackups(), whose first call is outstanding
InitBM ==
    /\ screen = "backups"
    /\ rd = Unmounted
    /\ mf = Unmounted
    /\ sb = Unmounted /\ cp = Unmounted /\ dc = Unmounted
    /\ mn = Unmounted /\ bu = Unmounted
    /\ fsStore \in SUBSET BackupNames
    /\ dbStore \in SUBSET BackupNames
    /\ bm_backups = <<>>
    /\ bm_backupSources = EmptySources
    /\ bm_loading = TRUE
    /\ bm_fetch = [t \in 1..MaxFetch |->
                     IF t = 1 THEN [pc |-> "fs", fsOk |-> FALSE, fsList |-> <<>>,
                                    allBackups |-> <<>>, backupSources |-> EmptySources]
                     ELSE Idle]
    /\ bm_lastLists = NoLists
    /\ bm_confirm = NoConfirm
    /\ bm_delete = Idle
    /\ bm_report = NoReport
    /\ bm_cm = InitCM

NextBM ==
    \/ BM_Refresh
    \/ \E t \in 1..MaxFetch : BM_FsListOk(t)
    \/ \E t \in 1..MaxFetch : BM_FsListBad(t)
    \/ \E t \in 1..MaxFetch : BM_FsListReject(t)
    \/ \E t \in 1..MaxFetch : BM_DbListOk(t)
    \/ \E t \in 1..MaxFetch : BM_DbListFail(t)
    \/ \E n \in BackupNames : BM_DeleteClick(n)
    \/ BM_ConfirmCancel
    \/ BM_ConfirmAccept
    \/ \E i \in 1..2, o \in {"ok", "err", "reject"} : BM_DeleteResponse(i, o)
    \/ BM_DeleteSettle
    \/ \E list \in BMDbLists : BM_DatabasesOk(list)
    \/ BM_DatabasesFail
    \/ BM_OpenCreateModal
    \/ CM_Cancel
    \/ \E d \in {"sales"}, toFs, toDb \in BOOLEAN : CM_Submit(d, toFs, toDb)
    \/ \E i \in 1..MaxCreate, n \in BackupNames : BM_CreateOk(i, n)
    \/ \E i \in 1..MaxCreate : BM_CreateFail(i)

SpecBM == InitBM /\ [][NextBM]_vars

-----------------------------------------------------------------------------
\* BackupManager: properties

\* the presence entry the table shows for n, as handleDeleteBackup reads it
Presence(n) ==
    IF n \in DOMAIN bm_backupSources THEN bm_backupSources[n]
    ELSE [file_system |-> FALSE, database |-> FALSE]

\* C1: after fetchBackups publishes with both list calls answered successfully, the
\* presence map has an entry exactly for the names of the two lists, and the entry of n
\* is {file_system: n is in the filesystem list, database: n is in the database list}.
C1_PresenceMapExact ==
    IF bm_lastLists.published
    THEN (bm_lastLists.fsOk /\ bm_lastLists.dbOk) =>
            /\ DOMAIN bm_backupSources = bm_lastLists.fs \cup bm_lastLists.db
            /\ \A n \in DOMAIN bm_backupSources :
                  bm_backupSources[n] = [file_system |-> n \in bm_lastLists.fs,
                                         database |-> n \in bm_lastLists.db]
    ELSE bm_backupSources = EmptySources

\* a publication from two good answers with one name in both lists and one name in the
\* filesystem list only
C1_Witness ==
    /\ bm_lastLists.published
    /\ bm_lastLists.fsOk /\ bm_lastLists.dbOk
    /\ bm_lastLists.fs = {"b1", "b2"}
    /\ bm_lastLists.db = {"b2"}
    /\ bm_backupSources["b1"] = [file_system |-> TRUE, database |-> FALSE]
    /\ bm_backupSources["b2"] = [file_system |-> TRUE, database |-> TRUE]

CallsTo(promises, store) == {i \in DOMAIN promises : promises[i].source = store}

\* the step in which window.confirm is accepted and the calls are issued
DeleteIssued == bm_confirm.open /\ bm_delete = Idle /\ bm_delete' # Idle
\* the step in which handleDeleteBackup reports its outcome
DeleteReported ==
    /\ bm_delete # Idle
    /\ ~bm_delete.reported
    /\ bm_delete' = Idle \/ bm_delete'.reported

\* C2: a confirmed Delete(name) issues exactly one call for each store flagged true in the
\* presence entry of name and none for a store flagged false, issues no call later, and
\* reports success if and only if every call it issued was answered OK.
C2_Step ==
    /\ DeleteIssued =>
          /\ Cardinality(CallsTo(bm_delete'.promises, "file_system"))
                = (IF Presence(bm_confirm.name).file_system THEN 1 ELSE 0)
          /\ Cardinality(CallsTo(bm_delete'.promises, "database"))
                = (IF Presence(bm_confirm.name).database THEN 1 ELSE 0)
          /\ bm_delete'.name = bm_confirm.name
    /\ (bm_delete # Idle /\ bm_delete' # Idle) =>
          /\ Len(bm_delete'.promises) = Len(bm_delete.promises)
          /\ \A i \in DOMAIN bm_delete.promises :
                bm_delete'.promises[i].source = bm_delete.promises[i].source
    /\ DeleteReported => (bm_report'.kind = "success" <=> AllOk(bm_delete.promises))

C2_DeleteCallsAndReport == [][C2_Step]_vars

\* a delete of an artifact held by both stores was reported as not successful after
\* one of its two calls failed
C2_Witness ==
    /\ bm_delete # Idle
    /\ bm_delete.reported
    /\ Len(bm_delete.promises) = 2
    /\ bm_report.kind = "failed"

\* C3: a confirmed Delete of a name present in both stores whose filesystem call
\* succeeds and whose database call fails reports a partial failure, leaves the
\* filesystem copy gone and the database copy in place, and issues the List that shows it.
C3_Step ==
    (/\ DeleteReported
     /\ bm_delete.hasFileSystem /\ bm_delete.hasDatabase
     /\ bm_delete.name \in dbStore
     /\ bm_delete.promises[1].st = "ok"
     /\ bm_delete.promises[2].st \in {"err", "reject"})
    => /\ bm_report'.kind = "partial"
       /\ bm_delete.name \notin fsStore'
       /\ bm_delete.name \in dbStore'
       /\ \E t \in 1..MaxFetch : bm_fetch[t] = Idle /\ bm_fetch'[t].pc = "fs"

C3_PartialFailureReported == [][C3_Step]_vars

\* C4: every confirmed Delete, whatever its outcome, is followed by a refresh of the list:
\* the step that reports the outcome calls fetchBackups.
C4_Step ==
    DeleteReported => \E t \in 1..MaxFetch : bm_fetch[t] = Idle /\ bm_fetch'[t].pc = "fs"

C4_AlwaysRefreshes == [][C4_Step]_vars

\* the step in which handleCreateBackup sends its request
CreateIssued == Len(bm_cm'.calls) > Len(bm_cm.calls)
\* the step in which a create call is answered OK
CreateSucceeded ==
    /\ Len(bm_cm'.calls) < Len(bm_cm.calls)
    /\ bm_cm'.created.on
    /\ ~bm_cm.created.on \/ bm_cm'.created.name # bm_cm.created.name
\* the step in which the fetchBackups invocation of slot t publishes its list
Published(t) == bm_fetch[t] # Idle /\ bm_fetch[t].pc = "db" /\ bm_fetch'[t] = Idle

\* C11: a Create submitted from CreateBackupModal sends one create-backup request whose
\* two destination flags are the ones chosen in the modal; when the call succeeds
\* BackupManager starts fetchBackups and closes the modal; and when a List whose
\* filesystem call was made after the creation is published from a good filesystem
\* answer, an artifact created with {toFileSystem: true, toDatabase: false} is in the
\* table with presence {file_system: true, database: false}.
C11_Step ==
    /\ CreateIssued =>
          /\ Len(bm_cm'.calls) = Len(bm_cm.calls) + 1
          /\ LET call == bm_cm'.calls[Len(bm_cm'.calls)]
             IN call.body.options.destinations = call.chosen
    /\ CreateSucceeded =>
          /\ \E t \in 1..MaxFetch : bm_fetch[t] = Idle /\ bm_fetch'[t].pc = "fs"
          /\ ~bm_cm'.showCreateModal
    /\ \A t \in 1..MaxFetch :
          (/\ Published(t)
           /\ bm_cm.created.on
           /\ t \notin bm_cm.created.stale
           /\ bm_lastLists'.fsOk
           /\ bm_cm.created.name \in fsStore
           /\ bm_cm.created.name \notin dbStore)
          => /\ FindIndexFound(bm_backups', bm_cm.created.name)
             /\ bm_cm.created.name \in DOMAIN bm_backupSources'
             /\ bm_backupSources'[bm_cm.created.name]
                   = [file_system |-> TRUE, database |-> FALSE]

C11_CreateIsListed == [][C11_Step]_vars

\* an artifact created in the filesystem store only is shown by the List that followed
C11_Witness ==
    /\ screen = "backups"
    /\ bm_cm.created.on
    /\ bm_cm.created.name \in fsStore \ dbStore
    /\ bm_lastLists.published
    /\ bm_cm.created.name \in bm_lastLists.fs
    /\ Presence(bm_cm.created.name) = [file_system |-> TRUE, database |-> FALSE]

\* C12: when the database list call fails (rejection, non-OK response or success=false)
\* after the filesystem list call succeeded, fetchBackups publishes exactly the backups
\* of the filesystem answer, each with presence {file_system: true, database: false}, and
\* sets loading to false.
C12_Step ==
    \A t \in 1..MaxFetch :
        (Published(t) /\ bm_fetch[t].fsOk /\ ~bm_lastLists'.dbOk)
        => /\ Range(bm_backups') = Range(bm_fetch[t].fsList)
           /\ Len(bm_backups') = Len(bm_fetch[t].fsList)
           /\ DOMAIN bm_backupSources' = Range(bm_fetch[t].fsList)
           /\ \A n \in DOMAIN bm_backupSources' :
                 bm_backupSources'[n] = [file_system |-> TRUE, database |-> FALSE]
           /\ ~bm_loading'

C12_DatabaseFailureTolerated == [][C12_Step]_vars

\* two filesystem backups are shown although the database store, which holds a backup,
\* could not be listed
C12_Witness ==
    /\ screen = "backups"
    /\ bm_lastLists.published
    /\ bm_lastLists.fsOk /\ ~bm_lastLists.dbOk
    /\ bm_lastLists.fs = {"b1", "b2"}
    /\ dbStore # {}
    /\ ~bm_loading
    /\ Len(bm_backups) = 2

\* the step in which the filesystem list call of slot t fails: it rejects, or it is
\* answered non-OK or without a usable body
FsListFailed(t) ==
    /\ bm_fetch[t] # Idle
    /\ bm_fetch[t].pc = "fs"
    /\ \/ bm_fetch'[t] = Idle
       \/ bm_fetch'[t].pc = "db" /\ ~bm_fetch'[t].fsOk
\* BackupManager renders no error state: an alert is the only error it can show, and
\* bm_report is the alert last shown
ErrorShown == bm_report' # bm_report

\* C13: when the filesystem list call of fetchBackups fails, the step that handles the
\* failure shows an error to the user.
C13_Step == \A t \in 1..MaxFetch : FsListFailed(t) => ErrorShown

C13_FilesystemFailureVisible == [][C13_Step]_vars

\* C14: the list fetchBackups publishes has exactly one entry for each name of the union
\* of the two list answers and is ordered by created_at, newest first.
C14_PublishedListSorted ==
    (screen = "backups" /\ bm_lastLists.published) =>
        /\ Range(bm_backups) = bm_lastLists.fs \cup bm_lastLists.db
        /\ Len(bm_backups) = Cardinality(bm_lastLists.fs \cup bm_lastLists.db)
        /\ \A i, j \in DOMAIN bm_backups :
              i < j => CreatedAt(bm_backups[i]) >= CreatedAt(bm_backups[j])

\* the older backup is in both stores, the newer one in the database store only: the
\* merge appends the newer one last and the sort moves it to the front
C14_Witness ==
    /\ screen = "backups"
    /\ bm_lastLists.published
    /\ bm_lastLists.fs = {"b1"}
    /\ bm_lastLists.db = {"b1", "b2"}
    /\ bm_backups = <<"b2", "b1">>

-----------------------------------------------------------------------------
\* Strings whose characters matter (file names, typed names) are sequences of characters

MaxUploads == 1     \* upload calls of one restore screen that may overlap
MaxOverlap == 2     \* the same, where files are dropped during an upload
MaxDbFetch == 1     \* fetchAvailableDatabases invocations that may overlap
MaxTimers == 1      \* auto-reset timers that may be pending

Upper == <<"A", "B", "C", "D", "E", "F", "G", "H", "I", "J", "K", "L", "M",
           "N", "O", "P", "Q", "R", "S", "T", "U", "V", "W", "X", "Y", "Z">>
Lower == <<"a", "b", "c", "d", "e", "f", "g", "h", "i", "j", "k", "l", "m",
           "n", "o", "p", "q", "r", "s", "t", "u", "v", "w", "x", "y", "z">>

UpperToLower ==
    [c \in {Upper[i] : i \in DOMAIN Upper} |-> Lower[CHOOSE i \in DOMAIN Upper : Upper[i] = c]]

ToLowerChar(c) == IF c \in DOMAIN UpperToLower THEN UpperToLower[c] ELSE c

\* String.prototype.toLowerCase
ToLowerCase(str) == [i \in DOMAIN str |-> ToLowerChar(str[i])]

\* String.prototype.endsWith
EndsWith(str, suffix) ==
    /\ Len(str) >= Len(suffix)
    /\ SubSeq(str, Len(str) - Len(suffix) + 1, Len(str)) = suffix

IsSpace(c) == c \in {" ", "\t", "\n"}

RECURSIVE TrimStart(_)
TrimStart(str) == IF str # <<>> /\ IsSpace(Head(str)) THEN TrimStart(Tail(str)) ELSE str

RECURSIVE TrimEnd(_)
TrimEnd(str) ==
    IF str # <<>> /\ IsSpace(str[Len(str)]) THEN TrimEnd(SubSeq(str, 1, Len(str) - 1)) ELSE str

\* String.prototype.trim
Trim(str) == TrimEnd(TrimStart(str))

\* const allowedTypes = ['.zip', '.tar', '.gz', '.bson']
AllowedTypes == {<<".", "z", "i", "p">>, <<".", "t", "a", "r">>, <<".", "g", "z">>,
                 <<".", "b", "s", "o", "n">>}

\* allowedTypes.some(type => fileName.endsWith(type)) without the toLowerCase
IsValidTypeCaseSensitive(name) == \E type \in AllowedTypes : EndsWith(name, type)

\* isValidType of processFile, for file.name = name
IsValidType(name) == \E type \in AllowedTypes : EndsWith(ToLowerCase(name), type)

\* names of the files a user picks or drops
FileNames ==
    {<<"d", ".", "z", "i", "p">>, <<"D", ".", "Z", "I", "P">>, <<"a", ".", "t", "a", "r">>,
     <<"d", ".", "g", "z">>, <<"e", ".", "B", "s", "o", "n">>, <<"r", ".", "p", "d", "f">>,
     <<"z", "i", "p">>, <<"a", ".", "g", "z", ".", "t", "x", "t">>}

\* backup names the upload endpoint answers with
UploadNames == {<<"b", "1">>, <<"b", "2">>}
\* backup_info.collections of an uploaded backup (absent for some backups)
CollectionsOf(name) == IF name = <<"b", "1">> THEN {"c1", "c2"} ELSE {}

DbNames == {<<"d", "1">>, <<"d", "2">>}
\* data.databases of a database list answer
DbLists == {<<>>, <<<<"d", "1">>, <<"d", "2">>>>}
\* what a user types as connection string or as new database name
ConnStrings == {<<" ">>, <<"m">>}
NewNames == {<<>>, <<" ">>, <<" ", "n">>}

NoInfo == [present |-> FALSE]

-----------------------------------------------------------------------------
\* RestoreDatabase and RestoreCollections (rd.kind tells which of the two is mounted)

IsDatabase(r) == r.kind = "database"

\* handleReset with setTargetDatabase('') and setNewDatabaseName('') left out
handleResetKeepsTarget(r) ==
    [r EXCEPT !.uploadedBackupInfo = NoInfo,
              !.uploadedBackupName = <<>>,
              !.createNewDatabase = FALSE,
              !.availableDatabases = IF IsDatabase(r) THEN <<>> ELSE @,
              !.backupCollections = {},
              !.selectedCollections = {},
              !.error = "",
              !.restoreResult = FALSE]

\* handleReset
handleReset(r) ==
    [r EXCEPT !.uploadedBackupInfo = NoInfo,
              !.uploadedBackupName = <<>>,
              !.targetDatabase = <<>>,
              !.newDatabaseName = <<>>,
              !.createNewDatabase = FALSE,
              !.availableDatabases = IF IsDatabase(r) THEN <<>> ELSE @,
              !.backupCollections = {},
              !.selectedCollections = {},
              !.error = "",
              !.restoreResult = FALSE]

\* fetchAvailableDatabases() up to its await (called with a non-blank connection string)
StartDbFetch(r) ==
    [r EXCEPT !.isLoadingDatabases = TRUE,
              !.error = "",
              !.dbFetch = Append(@, [targetEmpty |-> r.targetDatabase = <<>>])]

RemoveAt(seq, i) == SubSeq(seq, 1, i - 1) \o SubSeq(seq, i + 1, Len(seq))

\* processFile(file) up to its await, as a function of the component state
processFile(r, name) ==
    IF ~IsValidType(name)
    THEN [r EXCEPT !.error = "Invalid file type"]
    ELSE [r EXCEPT !.error = "", !.isUploadingFile = TRUE, !.uploads = @ + 1]

\* handleFileUpload (file input) or handleDrop (drop zone, always active)
RD_ProcessFile(name) ==
    /\ screen = "restore"
    /\ UNCHANGED notRD
    /\ IsValidType(name) => rd.uploads < MaxUploads
    /\ rd' = processFile(rd, name)

\* handleDrop of a file of a valid type while an upload call is outstanding
RD_DropWhileUploading(name) ==
    /\ screen = "restore"
    /\ UNCHANGED notRD
    /\ IsValidType(name)
    /\ rd.uploads >= MaxUploads /\ rd.uploads < MaxOverlap
    /\ rd' = processFile(rd, name)

\* the upload call is answered OK with success = true
RD_UploadOk(name) ==
    /\ screen = "restore"
    /\ UNCHANGED notRD
    /\ rd.uploads > 0
    /\ LET got == [rd EXCEPT !.uploadedBackupInfo = [present |-> TRUE, name |-> name],
                             !.uploadedBackupName = name,
                             !.restoreResult = FALSE,
                             !.isUploadingFile = FALSE,
                             !.uploads = @ - 1,
                             !.returned = @ \cup {name}]
       IN rd' = IF IsDatabase(rd)
                THEN [got EXCEPT !.targetDatabase = <<>>,
                                 !.newDatabaseName = <<>>,
                                 !.createNewDatabase = FALSE]
                ELSE [got EXCEPT !.backupCollections = CollectionsOf(name),
                                 !.selectedCollections = {}]

\* the upload call is answered non-OK or with success = false, or rejects
RD_UploadFail ==
    /\ screen = "restore"
    /\ UNCHANGED notRD
    /\ rd.uploads > 0
    /\ rd' = [rd EXCEPT !.error = "Upload failed",
                        !.backupCollections = {},
                        !.uploadedBackupInfo = NoInfo,
                        !.uploadedBackupName = <<>>,
                        !.isUploadingFile = FALSE,
                        !.uploads = @ - 1]

\* the "Upload different file" button
RD_UploadDifferent ==
    /\ screen = "restore"
    /\ UNCHANGED notRD
    /\ rd.uploadedBackupInfo.present
    /\ ~rd.isUploadingFile /\ ~rd.isRestoring
    /\ rd' = IF IsDatabase(rd)
             THEN [rd EXCEPT !.uploadedBackupInfo = NoInfo, !.uploadedBackupName = <<>>,
                             !.targetDatabase = <<>>]
             ELSE [rd EXCEPT !.uploadedBackupInfo = NoInfo, !.uploadedBackupName = <<>>,
                             !.backupCollections = {}, !.selectedCollections = {}]

\* the connection string input; useEffect([connectionString]) fetches the databases
RD_SetConnectionString(c) ==
    /\ screen = "restore"
    /\ UNCHANGED notRD
    /\ c # rd.connectionString
    /\ IF Trim(c) # <<>>
       THEN /\ Len(rd.dbFetch) < MaxDbFetch
            /\ rd' = StartDbFetch([rd EXCEPT !.connectionString = c])
       ELSE rd' = [rd EXCEPT !.connectionString = c]

\* the "Retry Connection" button, shown while the database list is empty
RD_RetryConnection ==
    /\ screen = "restore"
    /\ UNCHANGED notRD
    /\ rd.availableDatabases = <<>>
    /\ Trim(rd.connectionString) # <<>>
    /\ ~rd.isLoadingDatabases
    /\ Len(rd.dbFetch) < MaxDbFetch
    /\ rd' = StartDbFetch(rd)

\* the database list call is answered with success and a databases array
RD_DatabasesOk(i, list) ==
    /\ screen = "restore"
    /\ UNCHANGED notRD
    /\ i \in DOMAIN rd.dbFetch
    /\ rd' = [rd EXCEPT !.availableDatabases = list,
                        !.targetDatabase =
                            IF ~IsDatabase(rd) /\ Len(list) > 0 /\ rd.dbFetch[i].targetEmpty
                            THEN list[1] ELSE @,
                        !.isLoadingDatabases = FALSE,
                        !.dbFetch = RemoveAt(@, i)]

\* the database list call fails
RD_DatabasesFail(i) ==
    /\ screen = "restore"
    /\ UNCHANGED notRD
    /\ i \in DOMAIN rd.dbFetch
    /\ rd' = [rd EXCEPT !.error = "Failed to fetch databases",
                        !.availableDatabases = <<>>,
                        !.isLoadingDatabases = FALSE,
                        !.dbFetch = RemoveAt(@, i)]

\* a radio button of the target database list
RD_SelectTarget(d) ==
    /\ screen = "restore"
    /\ UNCHANGED notRD
    /\ \E i \in DOMAIN rd.availableDatabases : rd.availableDatabases[i] = d
    /\ d # rd.targetDatabase
    /\ rd' = IF IsDatabase(rd)
             THEN [rd EXCEPT !.targetDatabase = d, !.createNewDatabase = FALSE]
             ELSE [rd EXCEPT !.targetDatabase = d]

\* RestoreDatabase: the "Create New Database" radio button
RD_ChooseCreateNew ==
    /\ screen = "restore"
    /\ UNCHANGED notRD
    /\ IsDatabase(rd)
    /\ ~rd.createNewDatabase
    /\ rd' = [rd EXCEPT !.createNewDatabase = TRUE, !.targetDatabase = <<>>]

\* RestoreDatabase: the new database name input, rendered while createNewDatabase
RD_TypeNewName(str) ==
    /\ screen = "restore"
    /\ UNCHANGED notRD
    /\ IsDatabase(rd)
    /\ rd.createNewDatabase
    /\ str # rd.newDatabaseName
    /\ rd' = [rd EXCEPT !.newDatabaseName = str]

\* RestoreCollections: handleCollectionToggle
RC_CollectionToggle(c) ==
    /\ screen = "restore"
    /\ UNCHANGED notRD
    /\ ~IsDatabase(rd)
    /\ c \in rd.backupCollections
    /\ rd' = [rd EXCEPT !.selectedCollections = IF c \in @ THEN @ \ {c} ELSE @ \cup {c}]

\* RestoreCollections: handleSelectAllCollections
RC_SelectAllCollections ==
    /\ screen = "restore"
    /\ UNCHANGED notRD
    /\ ~IsDatabase(rd)
    /\ rd.backupCollections # {}
    /\ rd' = [rd EXCEPT !.selectedCollections =
                 IF Cardinality(@) = Cardinality(rd.backupCollections)
                 THEN {} ELSE rd.backupCollections]

\* RestoreCollections: the "Clear Selection" button
RC_ClearSelection ==
    /\ screen = "restore"
    /\ UNCHANGED notRD
    /\ ~IsDatabase(rd)
    /\ rd.selectedCollections # {}
    /\ ~rd.isRestoring /\ ~rd.isUploadingFile
    /\ rd' = [rd EXCEPT !.selectedCollections = {}]

\* the "Reset" button
RD_ResetClick ==
    /\ screen = "restore"
    /\ UNCHANGED notRD
    /\ rd.uploadedBackupInfo.present
    /\ ~rd.isRestoring /\ ~rd.isUploadingFile
    /\ rd' = handleReset(rd)

\* the restore button with the isRestoring test left out
RestoreButtonIgnoresRestoring(r) ==
    /\ r.uploadedBackupInfo.present
    /\ Trim(r.connectionString) # <<>>
    /\ ~r.isUploadingFile
    /\ IF IsDatabase(r)
       THEN /\ ~(r.createNewDatabase /\ Trim(r.newDatabaseName) = <<>>)
            /\ ~(~r.createNewDatabase /\ r.targetDatabase = <<>>)
       ELSE /\ r.targetDatabase # <<>>
            /\ ~(r.backupCollections # {} /\ r.selectedCollections = {})

\* the disabled attribute of the restore button, negated
RestoreButtonEnabled(r) ==
    /\ r.uploadedBackupInfo.present
    /\ Trim(r.connectionString) # <<>>
    /\ ~r.isRestoring
    /\ ~r.isUploadingFile
    /\ IF IsDatabase(r)
       THEN /\ ~(r.createNewDatabase /\ Trim(r.newDatabaseName) = <<>>)
            /\ ~(~r.createNewDatabase /\ r.targetDatabase = <<>>)
       ELSE /\ r.targetDatabase # <<>>
            /\ ~(r.backupCollections # {} /\ r.selectedCollections = {})

\* the early returns of handleRestore: the message set, or "" when the call goes out
RestoreGuardError(r) ==
    IF ~r.uploadedBackupInfo.present \/ r.uploadedBackupName = <<>>
    THEN "Please upload a backup file first"
    ELSE IF Trim(r.connectionString) = <<>>
    THEN "Please provide a MongoDB connection string"
    ELSE IF IsDatabase(r) /\ r.createNewDatabase /\ Trim(r.newDatabaseName) = <<>>
    THEN "Please provide a new database name"
    ELSE IF (IsDatabase(r) /\ ~r.createNewDatabase /\ r.targetDatabase = <<>>)
            \/ (~IsDatabase(r) /\ r.targetDatabase = <<>>)
    THEN "Please select a target database"
    ELSE IF ~IsDatabase(r) /\ r.backupCollections # {} /\ r.selectedCollections = {}
    THEN "Please select at least one collection to restore"
    ELSE ""

\* a payload that carries selected_collections even when nothing is selected
RestorePayloadAlwaysSelects(r) ==
    [backup_name |-> r.uploadedBackupName,
     confirm |-> TRUE,
     target_database |-> IF IsDatabase(r) /\ r.createNewDatabase
                         THEN Trim(r.newDatabaseName) ELSE r.targetDatabase,
     has_selected_collections |-> ~IsDatabase(r),
     selected_collections |-> r.selectedCollections]

\* the fields of restorePayload the properties read; has_selected_collections tells
\* whether the key selected_collections is in the payload
RestorePayload(r) ==
    [backup_name |-> r.uploadedBackupName,
     confirm |-> TRUE,
     target_database |-> IF IsDatabase(r) /\ r.createNewDatabase
                         THEN Trim(r.newDatabaseName) ELSE r.targetDatabase,
     has_selected_collections |-> ~IsDatabase(r) /\ r.selectedCollections # {},
     selected_collections |-> r.selectedCollections]

\* the restore button: handleRestore up to its await
RD_RestoreClick ==
    /\ screen = "restore"
    /\ UNCHANGED notRD
    /\ RestoreButtonEnabled(rd)
    /\ IF RestoreGuardError(rd) # ""
       THEN rd' = [rd EXCEPT !.error = RestoreGuardError(rd)]
       ELSE rd' = [rd EXCEPT !.isRestoring = TRUE,
                           !.error = "",
                           !.restoreResult = FALSE,
                           !.restore = [pc |-> "run", payload |-> RestorePayload(rd)],
                           !.restoreCalls = @ + 1,
                           !.called = FALSE]

\* the restore call is answered OK with success = true (the reset timer it sets fits
\* the bound on pending timers)
RD_RestoreOk ==
    /\ screen = "restore"
    /\ UNCHANGED notRD
    /\ rd.restore # Idle
    /\ rd.timers < MaxTimers
    /\ rd' = [rd EXCEPT !.restoreResult = TRUE,
                        !.called = rd.onRestoreComplete,
                        !.timers = @ + 1,
                        !.restored = rd.restore.payload.backup_name,
                        !.isRestoring = FALSE,
                        !.restore = Idle,
                        !.restoreCalls = @ - 1]

\* a failure path that also drops the uploaded handle
RD_RestoreFailDropsHandle(how) ==
    /\ screen = "restore"
    /\ UNCHANGED notRD
    /\ rd.restore # Idle
    /\ rd' = [rd EXCEPT !.error = "Restore failed",
                        !.uploadedBackupInfo = NoInfo,
                        !.uploadedBackupName = <<>>,
                        !.isRestoring = FALSE,
                        !.restore = Idle,
                        !.restoreCalls = @ - 1]

\* the restore call is answered non-OK ("error") or with success = false ("notSuccess"),
\* or rejects ("reject"): catch sets the error, finally clears isRestoring
RD_RestoreFail(how) ==
    /\ screen = "restore"
    /\ UNCHANGED notRD
    /\ rd.restore # Idle
    /\ rd' = [rd EXCEPT !.error = "Restore failed",
                        !.isRestoring = FALSE,
                        !.restore = Idle,
                        !.restoreCalls = @ - 1]

\* the 3 s timer set by a successful restore fires: handleReset
RD_ResetTimer ==
    /\ screen = "restore"
    /\ UNCHANGED notRD
    /\ rd.timers > 0
    /\ rd' = [handleReset(rd) EXCEPT !.timers = @ - 1,
                                     !.restored = IF rd.timers = 1 THEN <<>> ELSE @]

\* the BackupManager screen is not mounted
ParkedBM ==
    /\ fsStore = {} /\ dbStore = {}
    /\ bm_backups = <<>> /\ bm_backupSources = EmptySources /\ bm_loading = FALSE
    /\ bm_fetch = [t \in 1..MaxFetch |-> Idle]
    /\ bm_lastLists = NoLists /\ bm_confirm = NoConfirm /\ bm_delete = Idle
    /\ bm_report = NoReport
    /\ bm_cm = [InitCM EXCEPT !.dbFetch = FALSE]

InitRD ==
    /\ screen = "restore"
    /\ ParkedBM
    /\ mf = Unmounted
    /\ sb = Unmounted /\ cp = Unmounted /\ dc = Unmounted
    /\ mn = Unmounted /\ bu = Unmounted
    /\ \E kind \in {"database", "collections"}, cb \in BOOLEAN, c \in ConnStrings :
          rd = [mounted |-> TRUE, kind |-> kind, onRestoreComplete |-> cb,
                connectionString |-> c,
                uploadedBackupInfo |-> NoInfo, uploadedBackupName |-> <<>>,
                availableDatabases |-> <<>>, backupCollections |-> {},
                selectedCollections |-> {}, targetDatabase |-> <<>>,
                newDatabaseName |-> <<>>, createNewDatabase |-> FALSE,
                isRestoring |-> FALSE, isUploadingFile |-> FALSE,
                isLoadingDatabases |-> Trim(c) # <<>>,
                restoreResult |-> FALSE, error |-> "",
                uploads |-> 0,
                dbFetch |-> IF Trim(c) # <<>> THEN <<[targetEmpty |-> TRUE]>> ELSE <<>>,
                restore |-> Idle, restoreCalls |-> 0, timers |-> 0, restored |-> <<>>, returned |-> {},
                called |-> FALSE]

NextRD ==
    \/ \E name \in FileNames : RD_ProcessFile(name)
    \/ \E name \in UploadNames : RD_UploadOk(name)
    \/ RD_UploadFail
    \/ RD_UploadDifferent
    \/ \E c \in ConnStrings : RD_SetConnectionString(c)
    \/ RD_RetryConnection
    \/ \E i \in 1..MaxDbFetch, list \in DbLists : RD_DatabasesOk(i, list)
    \/ \E i \in 1..MaxDbFetch : RD_DatabasesFail(i)
    \/ \E d \in DbNames : RD_SelectTarget(d)
    \/ RD_ChooseCreateNew
    \/ \E str \in NewNames : RD_TypeNewName(str)
    \/ \E c \in {"c1", "c2"} : RC_CollectionToggle(c)
    \/ RC_SelectAllCollections
    \/ RC_ClearSelection
    \/ RD_ResetClick
    \/ RD_RestoreClick
    \/ RD_RestoreOk
    \/ \E how \in {"error", "notSuccess", "reject"} : RD_RestoreFail(how)
    \/ RD_ResetTimer

SpecRD == InitRD /\ [][NextRD]_vars

\* the timer of a successful restore does fire
SpecRDFair == SpecRD /\ WF_vars(RD_ResetTimer)

-----------------------------------------------------------------------------
\* Restore: upload-and-restore of a list of files

MaxFiles == 2       \* files added to the list during one mount

\* String.prototype.includes
Includes(str, sub) ==
    \E i \in 0..(Len(str) - Len(sub)) : SubSeq(str, i + 1, i + Len(sub)) = sub

\* the filter of handleFiles, for a file whose type is not application/zip
IsZipOrBackup(name) ==
    \/ EndsWith(ToLowerCase(name), <<".", "z", "i", "p">>)
    \/ Includes(ToLowerCase(name), <<"b", "a", "c", "k", "u", "p">>)

PickedNames == {<<"a", ".", "Z", "i", "p">>, <<"b", "a", "c", "k", "u", "p", "1">>,
                <<"r", ".", "p", "d", "f">>}
TargetNames == {<<>>, <<" ">>, <<"t", " ">>}

\* setUploadedFiles(prev => prev.map(f => f.id === id ? {...f, status} : f))
SetStatus(files, id, status) ==
    [i \in DOMAIN files |-> IF files[i].id = id THEN [files[i] EXCEPT !.status = status]
                            ELSE files[i]]

\* prev.filter(file => file.id !== fileId)
RECURSIVE WithoutFile(_, _)
WithoutFile(files, id) ==
    IF files = <<>> THEN <<>>
    ELSE IF Head(files).id = id THEN WithoutFile(Tail(files), id)
    ELSE <<Head(files)>> \o WithoutFile(Tail(files), id)

\* handleFiles([file]) from the drop zone or the file input
MF_HandleFiles(name) ==
    /\ screen = "files"
    /\ UNCHANGED notMF
    /\ IF ~IsZipOrBackup(name)
       THEN mf' = [mf EXCEPT !.error = "Please upload ZIP files or backup files"]
       ELSE /\ mf.nextId <= MaxFiles
            /\ mf' = [mf EXCEPT !.uploadedFiles = Append(@, [id |-> mf.nextId,
                                                             status |-> "ready"]),
                                !.nextId = @ + 1,
                                !.error = ""]

\* removeFile(id): the trash button of a file that is not uploading or restoring
MF_RemoveFile(id) ==
    /\ screen = "files"
    /\ UNCHANGED notMF
    /\ \E i \in DOMAIN mf.uploadedFiles :
          /\ mf.uploadedFiles[i].id = id
          /\ mf.uploadedFiles[i].status \notin {"uploading", "restoring"}
    /\ mf' = [mf EXCEPT !.uploadedFiles = WithoutFile(@, id)]

\* clearAllFiles
MF_ClearAllFiles ==
    /\ screen = "files"
    /\ UNCHANGED notMF
    /\ mf.uploadedFiles # <<>>
    /\ mf' = [mf EXCEPT !.uploadedFiles = <<>>, !.error = "", !.successMessage = FALSE,
                        !.uploadedBackupInfo = FALSE]

\* the target server URL input
MF_SetTargetServerUrl(c) ==
    /\ screen = "files"
    /\ UNCHANGED notMF
    /\ c # mf.targetServerUrl
    /\ mf' = [mf EXCEPT !.targetServerUrl = c]

\* the target database input ("Target Database (Optional)" / "New Database Name")
MF_SetTargetDatabase(str) ==
    /\ screen = "files"
    /\ UNCHANGED notMF
    /\ str # mf.targetDatabase
    /\ mf' = [mf EXCEPT !.targetDatabase = str]

\* the two radio buttons "Restore to Original Database" / "Create New Database"
MF_SetCreateNewDatabase(b) ==
    /\ screen = "files"
    /\ UNCHANGED notMF
    /\ b # mf.createNewDatabase
    /\ mf' = [mf EXCEPT !.createNewDatabase = b]

\* the disabled attribute of the floating restore button, negated
MF_ButtonEnabled(m) ==
    /\ ~m.isRestoring
    /\ m.uploadedFiles # <<>>
    /\ Trim(m.targetServerUrl) # <<>>
    /\ ~(m.createNewDatabase /\ Trim(m.targetDatabase) = <<>>)

\* restorePayload of Restore.handleRestore: target_database is added only when the
\* trimmed target is not empty
MF_RestorePayload(name, target) ==
    [backup_name |-> name,
     confirm |-> TRUE,
     has_target_database |-> Trim(target) # <<>>,
     target_database |-> Trim(target)]

\* the loop of handleRestore moves on after the file at run.i: next file, or the summary
MF_Advance(m, run) ==
    IF run.i < Len(run.files)
    THEN [m EXCEPT !.uploadedFiles = SetStatus(@, run.files[run.i + 1], "uploading"),
                   !.run = [run EXCEPT !.pc = "upload", !.i = @ + 1]]
    ELSE IF run.results > 0
    THEN [m EXCEPT !.successMessage = TRUE, !.timers = @ + 1,
                   !.isRestoring = FALSE, !.run = Idle, !.runs = @ - 1,
                   !.lastResults = run.results]
    ELSE [m EXCEPT !.error = "No backups were successfully restored",
                   !.isRestoring = FALSE, !.run = Idle, !.runs = @ - 1,
                   !.lastResults = 0]

\* the restore button: handleRestore up to the upload of the first file
MF_RestoreClick ==
    /\ screen = "files"
    /\ UNCHANGED notMF
    /\ MF_ButtonEnabled(mf)
    /\ mf.timers < MaxTimers
    /\ mf' = [mf EXCEPT !.isRestoring = TRUE,
                        !.error = "",
                        !.successMessage = FALSE,
                        !.uploadedFiles = SetStatus(@, mf.uploadedFiles[1].id, "uploading"),
                        !.runs = @ + 1,
                        !.run = [pc |-> "upload",
                                 files |-> [i \in DOMAIN mf.uploadedFiles |->
                                              mf.uploadedFiles[i].id],
                                 i |-> 1,
                                 targetDatabase |-> mf.targetDatabase,
                                 hadInfo |-> mf.uploadedBackupInfo,
                                 results |-> 0,
                                 payload |-> MF_RestorePayload(<<>>, <<>>)]]

\* the upload of the current file is answered with success = true: the restore call goes out
MF_UploadOk(name) ==
    /\ screen = "files"
    /\ UNCHANGED notMF
    /\ mf.run # Idle
    /\ mf.run.pc = "upload"
    /\ mf' = [mf EXCEPT !.uploadedBackupInfo = IF mf.run.hadInfo THEN @ ELSE TRUE,
                        !.uploadedFiles = SetStatus(@, mf.run.files[mf.run.i], "restoring"),
                        !.returned = @ \cup {name},
                        !.run = [mf.run EXCEPT !.pc = "restore",
                                               !.payload = MF_RestorePayload(
                                                               name, mf.run.targetDatabase)]]

\* a failed upload that ends the run
MF_UploadFailEndsRun ==
    /\ screen = "files"
    /\ UNCHANGED notMF
    /\ mf.run # Idle
    /\ mf.run.pc = "upload"
    /\ mf' = [mf EXCEPT !.uploadedFiles = SetStatus(@, mf.run.files[mf.run.i], "error"),
                        !.error = "No backups were successfully restored",
                        !.isRestoring = FALSE, !.run = Idle, !.runs = @ - 1,
                        !.lastResults = 0]

\* the upload of the current file fails: the file is marked, the loop moves on
MF_UploadFail ==
    /\ screen = "files"
    /\ UNCHANGED notMF
    /\ mf.run # Idle
    /\ mf.run.pc = "upload"
    /\ mf' = MF_Advance([mf EXCEPT !.uploadedFiles =
                             SetStatus(@, mf.run.files[mf.run.i], "error")], mf.run)

\* the restore call of the current file is answered with success = true
MF_RestoreOk ==
    /\ screen = "files"
    /\ UNCHANGED notMF
    /\ mf.run # Idle
    /\ mf.run.pc = "restore"
    /\ mf' = MF_Advance([mf EXCEPT !.uploadedFiles =
                             SetStatus(@, mf.run.files[mf.run.i], "success")],
                        [mf.run EXCEPT !.results = @ + 1])

\* the restore call of the current file fails
MF_RestoreFail ==
    /\ screen = "files"
    /\ UNCHANGED notMF
    /\ mf.run # Idle
    /\ mf.run.pc = "restore"
    /\ mf' = MF_Advance([mf EXCEPT !.uploadedFiles =
                             SetStatus(@, mf.run.files[mf.run.i], "error")], mf.run)

\* the 1.5 s timer set after a run with a restored file fires: onRestoreSuccess()
MF_RefreshTimer ==
    /\ screen = "files"
    /\ UNCHANGED notMF
    /\ mf.timers > 0
    /\ mf' = [mf EXCEPT !.timers = @ - 1]

InitMF ==
    /\ screen = "files"
    /\ ParkedBM
    /\ rd = Unmounted
    /\ sb = Unmounted /\ cp = Unmounted /\ dc = Unmounted
    /\ mn = Unmounted /\ bu = Unmounted
    /\ \E c \in ConnStrings :
          mf = [mounted |-> TRUE, uploadedFiles |-> <<>>, nextId |-> 1,
                targetServerUrl |-> c, targetDatabase |-> <<>>,
                createNewDatabase |-> FALSE, isRestoring |-> FALSE, error |-> "",
                successMessage |-> FALSE, uploadedBackupInfo |-> FALSE,
                run |-> Idle, runs |-> 0, lastResults |-> 0, returned |-> {},
                timers |-> 0]

NextMF ==
    \/ \E name \in PickedNames : MF_HandleFiles(name)
    \/ \E id \in 1..MaxFiles : MF_RemoveFile(id)
    \/ MF_ClearAllFiles
    \/ \E c \in ConnStrings : MF_SetTargetServerUrl(c)
    \/ \E str \in TargetNames : MF_SetTargetDatabase(str)
    \/ \E b \in BOOLEAN : MF_SetCreateNewDatabase(b)
    \/ MF_RestoreClick
    \/ \E name \in UploadNames : MF_UploadOk(name)
    \/ MF_UploadFail
    \/ MF_RestoreOk
    \/ MF_RestoreFail
    \/ MF_RefreshTimer

SpecMF == InitMF /\ [][NextMF]_vars

\* The restore components: RestoreDatabase, RestoreCollections or Restore mounted
InitRestore == InitRD \/ InitMF

NextRestore == NextRD \/ NextMF

SpecRestore == InitRestore /\ [][NextRestore]_vars

-----------------------------------------------------------------------------
\* Sidebar with its ConfirmationModal (drop collection) and its CopyCollectionModal

\* the two patterns handleCopy looks for in result.message
AlreadyExists == <<"a", "l", "r", "e", "a", "d", "y", " ", "e", "x", "i", "s", "t", "s">>
DoesNotExist == <<"d", "o", "e", "s", " ", "n", "o", "t", " ", "e", "x", "i", "s", "t">>
\* result.message of a copy answer (<<>>: the body has no message)
CopyMessages ==
    {<<>>, <<"x", " ">> \o AlreadyExists, <<"x", " ">> \o DoesNotExist, <<"b", "o", "o", "m">>}
\* what comes back for a copy call: the fetch rejects, or it is answered with a status
\* and a body that response.json() can read or not
CopyRejected == [kind |-> "reject", status |-> 0, json |-> FALSE, message |-> <<>>]
CopyResponses ==
    {CopyRejected}
    \cup [kind : {"answer"}, status : {200, 409, 500}, json : {TRUE}, message : CopyMessages]
    \cup [kind : {"answer"}, status : {200, 409, 500}, json : {FALSE}, message : {<<>>}]
NoAnswer == [kind |-> "none", status |-> 0, json |-> FALSE, message |-> <<>>]

\* response.ok
ResponseOk(resp) == resp.status >= 200 /\ resp.status <= 299

\* the branch handleCopy takes once the call settles: response.json() is awaited before
\* response.ok is looked at, so a body that cannot be read ends in the catch
CopyOutcome(resp) ==
    IF resp.kind = "reject" \/ ~resp.json THEN "network"
    ELSE IF ~ResponseOk(resp)
         THEN IF resp.status = 409 \/ Includes(resp.message, AlreadyExists) THEN "conflict"
              ELSE IF Includes(resp.message, DoesNotExist) THEN "missing"
              ELSE "other"
    ELSE "success"

MaxPending == 1     \* drop calls, and handleCopySuccess continuations, that may overlap
CountdownStart == 5 \* setCountdown(5)

CollNames == {<<"c", "1">>, <<"c", "2">>}
\* data.databases of a database list answer, as Sidebar receives it
SidebarDbLists == {<<>>, <<<<"d", "1">>>>, <<<<"d", "1">>, <<"d", "2">>>>,
                   <<<<"d", "2">>, <<"d", "3">>, <<"d", "1">>>>}
SidebarDbNames == {<<"d", "1">>, <<"d", "2">>, <<"d", "3">>}
\* what a user types as new collection name
TypedNames == {<<" ">>, <<"x">>}

ModalClosed == [isOpen |-> FALSE, dbName |-> <<>>, collName |-> <<>>]
CopyModalClosed == [isOpen |-> FALSE, sourceDatabase |-> <<>>, sourceCollection |-> <<>>]

\* SelectSeq without a lambda: the members of list other than d, in order
RECURSIVE FilterOut(_, _)
FilterOut(list, d) ==
    IF list = <<>> THEN <<>>
    ELSE IF Head(list) = d THEN FilterOut(Tail(list), d)
    ELSE <<Head(list)>> \o FilterOut(Tail(list), d)

\* availableDatabases = allDatabases.filter(db => db.name !== sourceDatabase)
AvailableDatabases(side) == FilterOut(side.databases, side.copyModalState.sourceDatabase)

\* the effect on [isOpen, sourceCollection] left out: the form keeps its last values
ResetFormKept(side, c) == c

\* the effect on [isOpen, sourceCollection]: the form is reset when the modal opens
ResetForm(side, c) ==
    IF side.copyModalState.isOpen /\ side.copyModalState.sourceCollection # <<>>
    THEN [c EXCEPT !.collectionName =
                       side.copyModalState.sourceCollection \o <<"_", "c", "o", "p", "y">>,
                   !.targetDatabase = <<>>,
                   !.error = "",
                   !.success = FALSE,
                   !.copyResult = FALSE,
                   !.countdown = 0]
    ELSE c

\* the effect on [isOpen, sourceCollection, availableDatabases.length, targetDatabase]:
\* an empty target becomes the first available database
InitTarget(side, c) ==
    IF /\ side.copyModalState.isOpen
       /\ side.copyModalState.sourceCollection # <<>>
       /\ AvailableDatabases(side) # <<>>
       /\ c.targetDatabase = <<>>
    THEN [c EXCEPT !.targetDatabase = AvailableDatabases(side)[1]]
    ELSE c

\* refreshDatabases: the refresh button of the sidebar
SB_RefreshDatabases ==
    /\ screen = "sidebar"
    /\ UNCHANGED notSB
    /\ ~sb.modalState.isOpen /\ ~sb.copyModalState.isOpen
    /\ sb.dbFetch < MaxDbFetch
    /\ sb' = [sb EXCEPT !.dbFetch = @ + 1]
    /\ UNCHANGED cp

\* fetchDatabases is answered with a databases array: the modal's allDatabases changes
SB_DatabasesOk(list) ==
    /\ screen = "sidebar"
    /\ UNCHANGED notSB
    /\ sb.dbFetch > 0
    /\ sb' = [sb EXCEPT !.databases = list, !.dbFetch = @ - 1]
    /\ cp' = InitTarget(sb', cp)

\* fetchDatabases fails or is answered without a list: logged only
SB_DatabasesFail ==
    /\ screen = "sidebar"
    /\ UNCHANGED notSB
    /\ sb.dbFetch > 0
    /\ sb' = [sb EXCEPT !.dbFetch = @ - 1]
    /\ UNCHANGED cp

\* handleDropCollection: the trash button of a collection opens the ConfirmationModal
SB_DropClick(d, c) ==
    /\ screen = "sidebar"
    /\ UNCHANGED notSB
    /\ ~sb.modalState.isOpen /\ ~sb.copyModalState.isOpen
    /\ \E i \in DOMAIN sb.databases : sb.databases[i] = d
    /\ sb' = [sb EXCEPT !.modalState = [isOpen |-> TRUE, dbName |-> d, collName |-> c]]
    /\ UNCHANGED cp

\* the Cancel button of the ConfirmationModal: closeModal
SB_ModalCancel ==
    /\ screen = "sidebar"
    /\ UNCHANGED notSB
    /\ sb.modalState.isOpen
    /\ sb' = [sb EXCEPT !.modalState = ModalClosed]
    /\ UNCHANGED cp

\* a drop request without the confirm flag
DropRequestUnconfirmed(dbName, collName) ==
    [database_name |-> dbName, collection_names |-> <<collName>>, confirm |-> FALSE]

\* the body of the drop request of confirmDropCollection(dbName, collName)
DropRequest(dbName, collName) ==
    [database_name |-> dbName, collection_names |-> <<collName>>, confirm |-> TRUE]

\* the Confirm button: confirmDropCollection up to its await, the drop call goes out
SB_ModalConfirm ==
    /\ screen = "sidebar"
    /\ UNCHANGED notSB
    /\ sb.modalState.isOpen
    /\ Len(sb.drops) < MaxPending
    /\ sb' = [sb EXCEPT !.drops = Append(@, DropRequest(sb.modalState.dbName,
                                                        sb.modalState.collName))]
    /\ UNCHANGED cp

\* the drop call is answered (OK: collections refreshed; otherwise an alert): closeModal
SB_DropAnswered ==
    /\ screen = "sidebar"
    /\ UNCHANGED notSB
    /\ sb.drops # <<>>
    /\ sb' = [sb EXCEPT !.drops = Tail(@), !.modalState = ModalClosed]
    /\ UNCHANGED cp

\* handleCopyCollection: the copy button of a collection opens the CopyCollectionModal;
\* its two effects then run (reset, then first available target)
SB_CopyClick(d, c) ==
    /\ screen = "sidebar"
    /\ UNCHANGED notSB
    /\ ~sb.modalState.isOpen /\ ~sb.copyModalState.isOpen
    /\ \E i \in DOMAIN sb.databases : sb.databases[i] = d
    /\ sb' = [sb EXCEPT !.copyModalState =
                 [isOpen |-> TRUE, sourceDatabase |-> d, sourceCollection |-> c]]
    /\ cp' = InitTarget(sb', ResetForm(sb', cp))

-----------------------------------------------------------------------------
\* DatabaseCard: the other parent of the CopyCollectionModal

\* the database the card shows (prop database.name)
CardDatabase == <<"d", "1">>
\* result.collections of a collection list answer
CardCollLists == {<<<<"c", "1">>>>, <<<<"c", "1">>, <<"c", "2">>>>}

\* the props DatabaseCard hands to the modal: isOpen, sourceDatabase, sourceCollection,
\* allDatabases
DCSide(card) ==
    [copyModalState |-> [isOpen |-> card.showCopyModal,
                         sourceDatabase |-> card.database,
                         sourceCollection |-> card.collectionToCopy],
     databases |-> card.allDatabases]

\* fetchCollections() up to its await: the call always names database.name
DC_fetchCollections(card) ==
    [card EXCEPT !.collFetch = Append(@, card.database), !.error = FALSE]

\* handleRefresh: fetchDatabaseDetails(), fetchCollections(), fetchAllDatabases()
DC_Refresh ==
    /\ screen = "card"
    /\ UNCHANGED notDC
    /\ ~dc.showCopyModal
    /\ Len(dc.collFetch) < MaxDbFetch /\ dc.dbFetch < MaxDbFetch
    /\ dc' = [DC_fetchCollections(dc) EXCEPT !.dbFetch = @ + 1]
    /\ UNCHANGED cp

\* a collection list call is answered with success and collections
DC_CollectionsOk(list) ==
    /\ screen = "card"
    /\ UNCHANGED notDC
    /\ dc.collFetch # <<>>
    /\ dc' = [dc EXCEPT !.collections = list, !.collFetch = Tail(@)]
    /\ UNCHANGED cp

\* a collection list call fails: setError
DC_CollectionsFail ==
    /\ screen = "card"
    /\ UNCHANGED notDC
    /\ dc.collFetch # <<>>
    /\ dc' = [dc EXCEPT !.error = TRUE, !.collFetch = Tail(@)]
    /\ UNCHANGED cp

\* fetchAllDatabases of the mount or of handleRefresh is answered with a list
DC_AllDatabasesOk(list) ==
    /\ screen = "card"
    /\ UNCHANGED notDC
    /\ dc.dbFetch > 0
    /\ dc' = [dc EXCEPT !.allDatabases = list, !.dbFetch = @ - 1]
    /\ cp' = InitTarget(DCSide(dc'), cp)

\* ... or fails, or is answered without a list
DC_AllDatabasesFail ==
    /\ screen = "card"
    /\ UNCHANGED notDC
    /\ dc.dbFetch > 0
    /\ dc' = [dc EXCEPT !.dbFetch = @ - 1]
    /\ UNCHANGED cp

\* handleCopyCollection up to its await: setCollectionToCopy, fetchAllDatabases()
DC_CopyCollection(c) ==
    /\ screen = "card"
    /\ UNCHANGED notDC
    /\ ~dc.showCopyModal
    /\ c \in Range(dc.collections)
    /\ dc.opening < MaxPending
    /\ dc' = [dc EXCEPT !.collectionToCopy = c, !.opening = @ + 1]
    /\ UNCHANGED cp

\* handleCopyCollection after its await, the list answered: setAllDatabases, then
\* setShowCopyModal(true); the two effects of the modal run
DC_CopyOpen(list) ==
    /\ screen = "card"
    /\ UNCHANGED notDC
    /\ dc.opening > 0
    /\ dc' = [dc EXCEPT !.allDatabases = list, !.opening = @ - 1, !.showCopyModal = TRUE]
    /\ cp' = InitTarget(DCSide(dc'), ResetForm(DCSide(dc'), cp))

\* ... the list call failed: the modal opens with the list the card had
DC_CopyOpenStale ==
    /\ screen = "card"
    /\ UNCHANGED notDC
    /\ dc.opening > 0
    /\ dc' = [dc EXCEPT !.opening = @ - 1, !.showCopyModal = TRUE]
    /\ cp' = InitTarget(DCSide(dc'), ResetForm(DCSide(dc'), cp))

\* DatabaseCard.handleCopySuccess: fetchCollections(), and fetchDatabaseDetails() (whose
\* answer no modelled state depends on) when the target is the card's database
DC_handleCopySuccess(targetDatabase) == dc' = DC_fetchCollections(dc)

\* DatabaseCard.handleCloseCopyModal
DC_handleCloseCopyModal == dc' = [dc EXCEPT !.showCopyModal = FALSE, !.collectionToCopy = <<>>]

\* Sidebar.handleCopySuccess up to its await: fetchCollections(targetDatabase)
SB_handleCopySuccess(targetDatabase) ==
    sb' = [sb EXCEPT !.copyRefresh = Append(@, targetDatabase)]

\* Sidebar.closeCopyModal
SB_closeCopyModal == sb' = [sb EXCEPT !.copyModalState = CopyModalClosed]

-----------------------------------------------------------------------------
\* CopyCollectionModal, under either parent

\* the parent's props of the modal
Parent == IF screen = "card" THEN DCSide(dc) ELSE sb

\* the prop onCopySuccess
onCopySuccess(targetDatabase) ==
    IF screen = "card"
    THEN DC_handleCopySuccess(targetDatabase) /\ UNCHANGED sb
    ELSE SB_handleCopySuccess(targetDatabase) /\ UNCHANGED dc

\* the prop onClose
onClose ==
    IF screen = "card"
    THEN DC_handleCloseCopyModal /\ UNCHANGED sb
    ELSE SB_closeCopyModal /\ UNCHANGED dc

\* the refresh a successful copy starts fits the bound on overlapping calls
ParentCanRefresh ==
    IF screen = "card" THEN Len(dc.collFetch) < MaxDbFetch
    ELSE Len(sb.copyRefresh) < MaxPending

\* the target database select of the modal
CP_SelectTarget(d) ==
    /\ screen \in {"sidebar", "card"}
    /\ UNCHANGED notCP
    /\ Parent.copyModalState.isOpen
    /\ ~cp.isLoading /\ ~cp.success
    /\ \E i \in DOMAIN AvailableDatabases(Parent) : AvailableDatabases(Parent)[i] = d
    /\ d # cp.targetDatabase
    /\ cp' = [cp EXCEPT !.targetDatabase = d]
    /\ UNCHANGED <<sb, dc>>

\* the new collection name input of the modal
CP_TypeName(str) ==
    /\ screen \in {"sidebar", "card"}
    /\ UNCHANGED notCP
    /\ Parent.copyModalState.isOpen
    /\ ~cp.isLoading /\ ~cp.success
    /\ str # cp.collectionName
    /\ cp' = [cp EXCEPT !.collectionName = str]
    /\ UNCHANGED <<sb, dc>>

\* the body of the copy request
CopyRequest(side, c) ==
    [source_database |-> side.copyModalState.sourceDatabase,
     target_database |-> c.targetDatabase,
     collection_name |-> side.copyModalState.sourceCollection,
     new_collection_name |-> Trim(c.collectionName)]

\* the "Copy Collection" button: handleCopy up to its await
CP_CopyClick ==
    /\ screen \in {"sidebar", "card"}
    /\ UNCHANGED notCP
    /\ Parent.copyModalState.isOpen
    /\ ~cp.success /\ ~cp.isLoading
    /\ AvailableDatabases(Parent) # <<>>
    /\ Trim(cp.collectionName) # <<>>
    /\ IF cp.targetDatabase = <<>> \/ Trim(cp.collectionName) = <<>>
       THEN cp' = [cp EXCEPT !.error = "Please select a target database"]
       ELSE /\ cp.copy = Idle
            /\ ParentCanRefresh
            /\ cp' = [cp EXCEPT !.isLoading = TRUE, !.error = "", !.success = FALSE,
                                !.copy = [pc |-> "run", request |-> CopyRequest(Parent, cp)],
                                !.answer = NoAnswer]
    /\ UNCHANGED <<sb, dc>>

\* the copy call is answered OK with a readable body: success, countdown, onCopySuccess
\* with the targetDatabase of the render handleCopy ran in, the one of the request
CP_CopyOk(resp) ==
    /\ screen \in {"sidebar", "card"}
    /\ UNCHANGED notCP
    /\ cp.copy # Idle
    /\ CopyOutcome(resp) = "success"
    /\ cp' = [cp EXCEPT !.copyResult = TRUE, !.success = TRUE, !.error = "",
                        !.countdown = CountdownStart, !.isLoading = FALSE, !.copy = Idle,
                        !.answer = resp]
    /\ onCopySuccess(cp.copy.request.target_database)

\* the copy call is answered non-OK ("conflict": 409 or 'already exists'; "missing":
\* 'does not exist'; "other"), or it rejects or its body cannot be read ("network")
CP_CopyFail(resp) ==
    /\ screen \in {"sidebar", "card"}
    /\ UNCHANGED notCP
    /\ cp.copy # Idle
    /\ CopyOutcome(resp) # "success"
    /\ cp' = [cp EXCEPT !.success = FALSE,
                        !.error = CASE CopyOutcome(resp) = "conflict" -> "already exists"
                                    [] CopyOutcome(resp) = "missing" -> "no longer exists"
                                    [] CopyOutcome(resp) = "other" -> "Copy failed"
                                    [] CopyOutcome(resp) = "network" -> "Network error",
                        !.isLoading = FALSE, !.copy = Idle,
                        !.answer = resp]
    /\ UNCHANGED <<sb, dc>>

\* handleClose, before the parent's onClose (answer, the history of the last answer, is
\* dropped with the messages it explains)
CloseCopyModal(c) ==
    [c EXCEPT !.error = "", !.success = FALSE, !.copyResult = FALSE, !.countdown = 0,
              !.answer = NoAnswer]

\* the X, Cancel or Close button of the modal
CP_Close ==
    /\ screen \in {"sidebar", "card"}
    /\ UNCHANGED notCP
    /\ Parent.copyModalState.isOpen
    /\ ~cp.isLoading
    /\ cp' = CloseCopyModal(cp)
    /\ onClose

\* one tick of the countdown interval; the last tick schedules handleClose
CP_CountdownTick ==
    /\ screen \in {"sidebar", "card"}
    /\ UNCHANGED notCP
    /\ cp.success /\ cp.countdown > 0
    /\ IF cp.countdown <= 1
       THEN /\ cp.closeTimers < MaxTimers
            /\ cp' = [cp EXCEPT !.countdown = 0, !.closeTimers = @ + 1]
       ELSE cp' = [cp EXCEPT !.countdown = @ - 1]
    /\ UNCHANGED <<sb, dc>>

\* the scheduled handleClose runs, with the isLoading = false of the render it was made in
CP_AutoClose ==
    /\ screen \in {"sidebar", "card"}
    /\ UNCHANGED notCP
    /\ cp.closeTimers > 0
    /\ cp' = [CloseCopyModal(cp) EXCEPT !.closeTimers = @ - 1]
    /\ onClose

\* Sidebar.handleCopySuccess after its await: the modal is closed
SB_CopyRefreshed ==
    /\ screen = "sidebar"
    /\ UNCHANGED notSB
    /\ sb.copyRefresh # <<>>
    /\ sb' = [sb EXCEPT !.copyRefresh = Tail(@), !.copyModalState = CopyModalClosed]
    /\ UNCHANGED cp

\* the modal's useState initial values
InitCP ==
    [mounted |-> TRUE, targetDatabase |-> <<>>, collectionName |-> <<>>,
     isLoading |-> FALSE, error |-> "", success |-> FALSE, copyResult |-> FALSE,
     countdown |-> 0, copy |-> Idle, closeTimers |-> 0, answer |-> NoAnswer]

\* after mount: useEffect has called fetchDatabases(), both modals are closed
InitSB ==
    /\ screen = "sidebar"
    /\ ParkedBM
    /\ rd = Unmounted /\ mf = Unmounted
    /\ sb = [mounted |-> TRUE, databases |-> <<>>, dbFetch |-> 1,
             modalState |-> ModalClosed, drops |-> <<>>,
             copyModalState |-> CopyModalClosed, copyRefresh |-> <<>>]
    /\ dc = Unmounted /\ mn = Unmounted /\ bu = Unmounted
    /\ cp = InitCP

NextSB ==
    \/ SB_RefreshDatabases
    \/ \E list \in SidebarDbLists : SB_DatabasesOk(list)
    \/ SB_DatabasesFail
    \/ \E d \in SidebarDbNames, c \in CollNames : SB_DropClick(d, c)
    \/ SB_ModalCancel
    \/ SB_ModalConfirm
    \/ SB_DropAnswered
    \/ \E d \in SidebarDbNames, c \in CollNames : SB_CopyClick(d, c)
    \/ \E d \in SidebarDbNames : CP_SelectTarget(d)
    \/ \E str \in TypedNames : CP_TypeName(str)
    \/ CP_CopyClick
    \/ \E resp \in CopyResponses : CP_CopyOk(resp)
    \/ \E resp \in CopyResponses : CP_CopyFail(resp)
    \/ CP_Close
    \/ CP_CountdownTick
    \/ CP_AutoClose
    \/ SB_CopyRefreshed

SpecSB == InitSB /\ [][NextSB]_vars

\* DatabaseCard after mount: useEffect has called fetchDatabaseDetails(), fetchCollections()
\* and fetchAllDatabases()
InitDC ==
    /\ screen = "card"
    /\ ParkedBM
    /\ rd = Unmounted /\ mf = Unmounted /\ sb = Unmounted
    /\ dc = [mounted |-> TRUE, database |-> CardDatabase, collections |-> <<>>,
             error |-> FALSE, allDatabases |-> <<>>, showCopyModal |-> FALSE,
             collectionToCopy |-> <<>>, collFetch |-> <<CardDatabase>>, dbFetch |-> 1,
             opening |-> 0]
    /\ cp = InitCP
    /\ mn = Unmounted /\ bu = Unmounted

NextDC ==
    \/ DC_Refresh
    \/ \E list \in CardCollLists : DC_CollectionsOk(list)
    \/ DC_CollectionsFail
    \/ \E list \in SidebarDbLists : DC_AllDatabasesOk(list)
    \/ DC_AllDatabasesFail
    \/ \E c \in CollNames : DC_CopyCollection(c)
    \/ \E list \in SidebarDbLists : DC_CopyOpen(list)
    \/ DC_CopyOpenStale
    \/ \E d \in SidebarDbNames : CP_SelectTarget(d)
    \/ \E str \in TypedNames : CP_TypeName(str)
    \/ CP_CopyClick
    \/ \E resp \in CopyResponses : CP_CopyOk(resp)
    \/ \E resp \in CopyResponses : CP_CopyFail(resp)
    \/ CP_Close
    \/ CP_CountdownTick
    \/ CP_AutoClose

SpecDC == InitDC /\ [][NextDC]_vars

-----------------------------------------------------------------------------
\* Main: the connection form

\* useState('mongodb://localhost:27017'), and what a user types into the URL field
DefaultUrl == <<"m">>
MainUrls == {DefaultUrl, <<"x">>, <<"x", " ">>, <<" ">>, <<>>}
MaxRefresh == 1     \* list calls of handleRefreshDatabases that may overlap

\* the URL field: setServerUrl, setConnectionError('') (the field is not disabled while
\* a connect is outstanding)
MN_SetServerUrl(url) ==
    /\ screen = "connect"
    /\ UNCHANGED notMN
    /\ ~mn.isConnected
    /\ url # mn.serverUrl
    /\ mn' = [mn EXCEPT !.serverUrl = url, !.connectionError = ""]

\* the connect button (disabled={isConnecting || !serverUrl.trim()}): handleConnect up to
\* the await of the test-connection call
MN_ConnectClick ==
    /\ screen = "connect"
    /\ UNCHANGED notMN
    /\ ~mn.isConnected
    /\ ~mn.isConnecting /\ Trim(mn.serverUrl) # <<>>
    /\ mn' = IF Trim(mn.serverUrl) = <<>>
             THEN [mn EXCEPT !.connectionError = "Please enter a server URL"]
             ELSE [mn EXCEPT !.isConnecting = TRUE, !.connectionError = "",
                             !.connect = [pc |-> "test", url |-> mn.serverUrl],
                             !.calls = @ + 1]

\* the test call is answered with success: setIsConnected(true), fetchDatabases() of the
\* render handleConnect ran in, whose list call names the URL that was tested
MN_TestOk ==
    /\ screen = "connect"
    /\ UNCHANGED notMN
    /\ mn.connect # Idle
    /\ mn.connect.pc = "test"
    /\ mn' = [mn EXCEPT
                 !.isConnected = TRUE,
                 !.tested = @ \cup {mn.connect.url},
                 !.isLoadingDatabases = TRUE,
                 !.connect = [pc |-> "list", url |-> mn.connect.url]]

\* the test call is answered without success, or it rejects: error, finally
MN_TestFail ==
    /\ screen = "connect"
    /\ UNCHANGED notMN
    /\ mn.connect # Idle
    /\ mn.connect.pc = "test"
    /\ mn' = [mn EXCEPT !.connectionError = "Failed to connect",
                        !.isConnecting = FALSE, !.connect = Idle, !.calls = @ - 1]

\* the list call of fetchDatabases is answered (with databases, or with an error that is
\* shown), then the finally of handleConnect
MN_ListAnswered(ok) ==
    /\ screen = "connect"
    /\ UNCHANGED notMN
    /\ mn.connect # Idle
    /\ mn.connect.pc = "list"
    /\ mn' = [mn EXCEPT !.databases = IF ok THEN TRUE ELSE @,
                        !.connectionError = IF ok THEN @ ELSE "Failed to fetch databases",
                        !.isLoadingDatabases = FALSE,
                        !.isConnecting = FALSE, !.connect = Idle, !.calls = @ - 1]

\* handleDisconnect (the sidebar's disconnect button, shown while connected)
MN_Disconnect ==
    /\ screen = "connect"
    /\ UNCHANGED notMN
    /\ mn.isConnected
    /\ mn' = [mn EXCEPT !.isConnected = FALSE, !.databases = FALSE,
                        !.connectionError = "", !.serverUrl = DefaultUrl]

\* handleRefreshDatabases (the sidebar's refresh button, shown while connected):
\* fetchDatabases up to the await of its list call
MN_RefreshDatabases ==
    /\ screen = "connect"
    /\ UNCHANGED notMN
    /\ mn.isConnected
    /\ mn.refresh < MaxRefresh
    /\ mn' = [mn EXCEPT !.isLoadingDatabases = TRUE, !.refresh = @ + 1]

\* the list call of a refresh is answered
MN_RefreshAnswered(ok) ==
    /\ screen = "connect"
    /\ UNCHANGED notMN
    /\ mn.refresh > 0
    /\ mn' = [mn EXCEPT !.databases = IF ok THEN TRUE ELSE @,
                        !.connectionError = IF ok THEN @ ELSE "Failed to fetch databases",
                        !.isLoadingDatabases = FALSE, !.refresh = @ - 1]

\* Main after mount (tested: history, the URLs a test call returned success for; calls: connect runs started and not yet ended)
InitMN ==
    /\ screen = "connect"
    /\ ParkedBM
    /\ rd = Unmounted /\ mf = Unmounted
    /\ sb = Unmounted /\ cp = Unmounted /\ dc = Unmounted /\ bu = Unmounted
    /\ mn = [mounted |-> TRUE, serverUrl |-> DefaultUrl, isConnecting |-> FALSE,
             connectionError |-> "", isConnected |-> FALSE, databases |-> FALSE,
             isLoadingDatabases |-> FALSE, connect |-> Idle, calls |-> 0, refresh |-> 0,
             tested |-> {}]

NextMN ==
    \/ \E url \in MainUrls : MN_SetServerUrl(url)
    \/ MN_ConnectClick
    \/ MN_TestOk
    \/ MN_TestFail
    \/ \E ok \in BOOLEAN : MN_ListAnswered(ok)
    \/ MN_Disconnect
    \/ MN_RefreshDatabases
    \/ \E ok \in BOOLEAN : MN_RefreshAnswered(ok)

SpecMN == InitMN /\ [][NextMN]_vars

-----------------------------------------------------------------------------
\* BackUp: selecting databases or collections, and handleBackup

MaxExpand == 1      \* fetchCollections calls of toggleDatabaseExpansion that may overlap
MaxRuns == 2        \* handleBackup runs that the model can hold at once
MaxScheduled == 2   \* download timers that may be pending

\* the databases of the server and their collections, as the list calls return them
BackupDbs == {<<"d">>, <<"e">>}
BackupDbLists == {<<<<"d">>, <<"e">>>>, <<<<"d">>>>}
ServerCollections(db) ==
    IF db = <<"d">> THEN <<<<"a">>, <<"a", ".", "b">>>> ELSE <<<<"c">>>>
BackupCollections == UNION {Range(ServerCollections(db)) : db \in BackupDbs}

Has(seq, x) == \E i \in DOMAIN seq : seq[i] = x
Without(seq, x) == SelectSeq(seq, LAMBDA y : y # x)

\* `${databaseName}.${collectionName}`
CollectionKey(db, coll) == db \o <<".">> \o coll

\* collectionKey.split('.')
FirstDot(str) ==
    IF \E i \in DOMAIN str : str[i] = "."
    THEN CHOOSE i \in DOMAIN str : str[i] = "." /\ \A j \in 1..(i - 1) : str[j] # "."
    ELSE 0

RECURSIVE SplitDot(_)
SplitDot(str) ==
    IF FirstDot(str) = 0
    THEN <<str>>
    ELSE <<SubSeq(str, 1, FirstDot(str) - 1)>>
             \o SplitDot(SubSeq(str, FirstDot(str) + 1, Len(str)))

\* const [databaseName, collectionName] = collectionKey.split('.')
KeyDatabase(key) == SplitDot(key)[1]
KeyCollection(key) == IF Len(SplitDot(key)) >= 2 THEN SplitDot(key)[2] ELSE <<"undefined">>

\* collectionsByDatabase: the selected keys grouped by database, in insertion order
RECURSIVE GroupKeys(_, _)
GroupKeys(keys, groups) ==
    IF keys = <<>> THEN groups
    ELSE LET db == KeyDatabase(Head(keys))
             coll == KeyCollection(Head(keys))
         IN IF \E i \in DOMAIN groups : groups[i].database = db
            THEN GroupKeys(Tail(keys),
                     [i \in DOMAIN groups |->
                         IF groups[i].database = db
                         THEN [groups[i] EXCEPT !.collections = Append(@, coll)]
                         ELSE groups[i]])
            ELSE GroupKeys(Tail(keys),
                     Append(groups, [database |-> db, collections |-> <<coll>>]))

\* the body of the create call for a whole database, and for a partial backup
FullRequest(db) == [database_name |-> db, partial |-> FALSE, collections |-> <<>>]
PartialRequest(db, collections) ==
    [database_name |-> db, partial |-> TRUE, collections |-> collections]

\* the create calls handleBackup makes, in order, from the state of the render it runs in
BackupRequests(b) ==
    IF b.activeView = "database"
    THEN [i \in DOMAIN b.selectedDatabases |-> FullRequest(b.selectedDatabases[i])]
    ELSE LET groups == GroupKeys(b.selectedCollections, <<>>)
             all(db) == IF db \in b.loaded THEN ServerCollections(db) ELSE <<>>
         IN [i \in DOMAIN groups |->
                IF Len(groups[i].collections) < Len(all(groups[i].database))
                THEN PartialRequest(groups[i].database, groups[i].collections)
                ELSE FullRequest(groups[i].database)]

\* a database row of the collections view with nothing disabled
NeverDisabled(b, db) == FALSE

\* isDisabled of a database row in the collections view
isDisabled(b, db) == b.selectedDatabase # <<>> /\ b.selectedDatabase # db

\* the refresh button (disabled={isLoading}): fetchDatabases up to its await
BU_Refresh ==
    /\ screen = "backup"
    /\ UNCHANGED notBU
    /\ ~bu.isLoading
    /\ bu' = [bu EXCEPT !.isLoading = TRUE, !.error = "", !.dbFetch = @ + 1]

\* the list call of fetchDatabases is answered with databases
BU_DatabasesOk(list) ==
    /\ screen = "backup"
    /\ UNCHANGED notBU
    /\ bu.dbFetch > 0
    /\ bu' = [bu EXCEPT !.databases = list, !.isLoading = FALSE, !.dbFetch = @ - 1]

\* the list call of fetchDatabases is answered without success, or it rejects
BU_DatabasesFail ==
    /\ screen = "backup"
    /\ UNCHANGED notBU
    /\ bu.dbFetch > 0
    /\ bu' = [bu EXCEPT !.error = "Failed to fetch databases", !.isLoading = FALSE,
                        !.dbFetch = @ - 1]

\* the view toggle, and useEffect([activeView]) when the view changed
BU_SetActiveView(view) ==
    /\ screen = "backup"
    /\ UNCHANGED notBU
    /\ view # bu.activeView
    /\ bu' = IF view = "database"
             THEN [bu EXCEPT !.activeView = view, !.selectedCollections = <<>>,
                             !.selectedDatabase = <<>>]
             ELSE [bu EXCEPT !.activeView = view, !.selectedDatabases = <<>>]

\* toggleDatabaseExpansion up to its end, or up to the await of fetchCollections
BU_ToggleExpansion(db) ==
    /\ screen = "backup"
    /\ UNCHANGED notBU
    /\ bu.activeView = "collections" /\ ~bu.isLoading
    /\ Has(bu.databases, db)
    /\ ~isDisabled(bu, db)
    /\ IF db \in bu.expandedDatabases
       THEN bu' = [bu EXCEPT !.expandedDatabases = @ \ {db}]
       ELSE IF db \in bu.loaded
       THEN bu' = [bu EXCEPT !.expandedDatabases = @ \cup {db}]
       ELSE /\ Len(bu.expanding) < MaxExpand
            /\ bu' = [bu EXCEPT !.expanding =
                         Append(@, [db |-> db,
                                    newExpanded |-> bu.expandedDatabases \cup {db}])]

\* fetchCollections is answered (with collections, or not), then
\* setExpandedDatabases(newExpanded)
BU_CollectionsAnswered(i, ok) ==
    /\ screen = "backup"
    /\ UNCHANGED notBU
    /\ i \in DOMAIN bu.expanding
    /\ bu' = [bu EXCEPT !.loaded = IF ok THEN @ \cup {bu.expanding[i].db} ELSE @,
                        !.expandedDatabases = bu.expanding[i].newExpanded,
                        !.expanding = RemoveAt(@, i)]

\* handleDatabaseSelection
BU_DatabaseSelection(db) ==
    /\ screen = "backup"
    /\ UNCHANGED notBU
    /\ bu.activeView = "database" /\ ~bu.isLoading
    /\ Has(bu.databases, db)
    /\ bu' = [bu EXCEPT !.selectedDatabases =
                 IF Has(@, db) THEN Without(@, db) ELSE Append(@, db)]

\* handleSelectAllDatabases
BU_SelectAllDatabases ==
    /\ screen = "backup"
    /\ UNCHANGED notBU
    /\ bu.activeView = "database"
    /\ bu' = [bu EXCEPT !.selectedDatabases =
                 IF Len(@) = Len(bu.databases) THEN <<>> ELSE bu.databases]

\* handleCollectionSelection, as a function of the state of the render it runs in (the
\* last setSelectedCollections and the last setSelectedDatabase of the handler win)
handleCollectionSelection(b, db, coll) ==
    LET key == CollectionKey(db, coll)
        newSelected == IF Has(b.selectedCollections, key)
                       THEN Without(b.selectedCollections, key)
                       ELSE Append(b.selectedCollections, key)
    IN [b EXCEPT !.selectedCollections = newSelected,
                 !.selectedDatabase =
                     IF Has(b.selectedCollections, key) /\ newSelected = <<>> THEN <<>>
                     ELSE IF b.selectedDatabase # db THEN db
                     ELSE @]

\* a collection row of an expanded database (onClick and onChange test !isDisabled)
BU_CollectionSelection(db, coll) ==
    /\ screen = "backup"
    /\ UNCHANGED notBU
    /\ bu.activeView = "collections" /\ ~bu.isLoading
    /\ Has(bu.databases, db)
    /\ db \in bu.expandedDatabases /\ db \in bu.loaded
    /\ Has(ServerCollections(db), coll)
    /\ ~isDisabled(bu, db)
    /\ bu' = handleCollectionSelection(bu, db, coll)

\* handleSelectAllCollections (button of an expanded database, disabled={isDisabled})
BU_SelectAllCollections(db) ==
    /\ screen = "backup"
    /\ UNCHANGED notBU
    /\ bu.activeView = "collections" /\ ~bu.isLoading
    /\ Has(bu.databases, db)
    /\ db \in bu.expandedDatabases /\ db \in bu.loaded
    /\ ~isDisabled(bu, db)
    /\ LET collectionKeys == [i \in DOMAIN ServerCollections(db) |->
                                 CollectionKey(db, ServerCollections(db)[i])]
           allSelected == \A i \in DOMAIN collectionKeys :
                              Has(bu.selectedCollections, collectionKeys[i])
           newSelected == SelectSeq(bu.selectedCollections,
                                    LAMBDA k : ~Has(collectionKeys, k))
       IN bu' = IF allSelected
                THEN [bu EXCEPT !.selectedCollections = newSelected,
                                !.selectedDatabase = IF newSelected = <<>> THEN <<>> ELSE @]
                ELSE [bu EXCEPT !.selectedDatabase = db,
                                !.selectedCollections = collectionKeys]

\* the "Clear Selection" button (shown while selectedDatabase is set)
BU_ClearSelection ==
    /\ screen = "backup"
    /\ UNCHANGED notBU
    /\ bu.activeView = "collections"
    /\ bu.selectedDatabase # <<>>
    /\ bu' = [bu EXCEPT !.selectedCollections = <<>>, !.selectedDatabase = <<>>]

\* the backup button as rendered
BackupButtonEnabled(b) ==
    /\ ~b.isBackingUp
    /\ b.activeView = "database" => b.selectedDatabases # <<>>
    /\ b.activeView = "collections" => b.selectedCollections # <<>>

\* handleBackup up to the await of its first create call
BU_BackupClick ==
    /\ screen = "backup"
    /\ UNCHANGED notBU
    /\ BackupButtonEnabled(bu)
    /\ Len(bu.runs) < MaxRuns
    /\ bu' = [bu EXCEPT !.isBackingUp = TRUE, !.error = "", !.successMessage = FALSE,
                        !.runs = Append(@, [view |-> bu.activeView,
                                            requests |-> BackupRequests(bu),
                                            results |-> <<>>])]

\* the create call a run is waiting for
Outstanding(run) == run.requests[Len(run.results) + 1]

\* a create call is answered with success: the next call of the loop, or after the last
\* one the success message, the cleared selection, the download timers, and finally
BU_CreateOk(i) ==
    /\ screen = "backup"
    /\ UNCHANGED notBU
    /\ i \in DOMAIN bu.runs
    /\ LET run == bu.runs[i]
           results == Append(run.results, Outstanding(run).database_name)
       IN IF Len(results) < Len(run.requests)
          THEN bu' = [bu EXCEPT !.runs[i].results = results]
          ELSE /\ Len(bu.scheduled) + Len(results) <= MaxScheduled
               /\ bu' = [bu EXCEPT
                      !.successMessage = TRUE,
                      !.selectedDatabases = IF run.view = "database" THEN <<>> ELSE @,
                      !.selectedCollections = IF run.view = "database" THEN @ ELSE <<>>,
                      !.selectedDatabase = IF run.view = "database" THEN @ ELSE <<>>,
                      !.scheduled = @ \o results,
                      !.isBackingUp = FALSE,
                      !.runs = RemoveAt(@, i)]

\* a create call whose failure is shown and leaves the loop running
BU_CreateFailGoesOn(i, how) ==
    /\ screen = "backup"
    /\ UNCHANGED notBU
    /\ i \in DOMAIN bu.runs
    /\ bu' = IF Len(bu.runs[i].results) + 1 < Len(bu.runs[i].requests)
             THEN [bu EXCEPT !.error = how,
                             !.runs[i].requests = RemoveAt(@, Len(bu.runs[i].results) + 1)]
             ELSE [bu EXCEPT !.error = how, !.isBackingUp = FALSE,
                             !.runs = RemoveAt(@, i)]

\* a create call is answered without success, or it rejects: catch, finally
BU_CreateFail(i, how) ==
    /\ screen = "backup"
    /\ UNCHANGED notBU
    /\ i \in DOMAIN bu.runs
    /\ bu' = [bu EXCEPT !.error = how, !.isBackingUp = FALSE, !.runs = RemoveAt(@, i)]

\* a download timer fires: downloadBackup up to the end of its calls, which may show an
\* error
BU_Download(ok) ==
    /\ screen = "backup"
    /\ UNCHANGED notBU
    /\ bu.scheduled # <<>>
    /\ bu' = [bu EXCEPT !.scheduled = Tail(@),
                        !.error = IF ok THEN @ ELSE "Download failed"]

\* BackUp after mount: useEffect([]) has called fetchDatabases (loaded: the databases
\* collectionsData has an entry for; scheduled: the backups whose download timer is
\* pending)
InitBU ==
    /\ screen = "backup"
    /\ ParkedBM
    /\ rd = Unmounted /\ mf = Unmounted
    /\ sb = Unmounted /\ cp = Unmounted /\ dc = Unmounted /\ mn = Unmounted
    /\ bu = [mounted |-> TRUE, activeView |-> "database", databases |-> <<>>,
             loaded |-> {}, expandedDatabases |-> {}, expanding |-> <<>>,
             selectedDatabases |-> <<>>, selectedCollections |-> <<>>,
             selectedDatabase |-> <<>>, isLoading |-> TRUE, dbFetch |-> 1,
             isBackingUp |-> FALSE, error |-> "", successMessage |-> FALSE,
             runs |-> <<>>, scheduled |-> <<>>]

CreateFailures == {"Failed to backup database", "Failed to fetch"}

NextBU ==
    \/ BU_Refresh
    \/ \E list \in BackupDbLists : BU_DatabasesOk(list)
    \/ BU_DatabasesFail
    \/ \E view \in {"database", "collections"} : BU_SetActiveView(view)
    \/ \E db \in BackupDbs : BU_ToggleExpansion(db)
    \/ \E i \in 1..MaxExpand, ok \in BOOLEAN : BU_CollectionsAnswered(i, ok)
    \/ \E db \in BackupDbs : BU_DatabaseSelection(db)
    \/ BU_SelectAllDatabases
    \/ \E db \in BackupDbs, coll \in BackupCollections : BU_CollectionSelection(db, coll)
    \/ \E db \in BackupDbs : BU_SelectAllCollections(db)
    \/ BU_ClearSelection
    \/ BU_BackupClick
    \/ \E i \in 1..MaxRuns : BU_CreateOk(i)
    \/ \E i \in 1..MaxRuns, how \in CreateFailures : BU_CreateFail(i, how)
    \/ \E ok \in BOOLEAN : BU_Download(ok)

SpecBU == InitBU /\ [][NextBU]_vars

-----------------------------------------------------------------------------
\* RestoreDatabase with files dropped on the upload area while an upload is outstanding

InitRDOverlap == InitRD /\ rd.kind = "database" /\ ~rd.onRestoreComplete

NextRDOverlap ==
    \/ \E name \in FileNames : RD_ProcessFile(name)
    \/ \E name \in FileNames : RD_DropWhileUploading(name)
    \/ \E name \in UploadNames : RD_UploadOk(name)
    \/ RD_UploadFail
    \/ RD_UploadDifferent
    \/ \E c \in ConnStrings : RD_SetConnectionString(c)
    \/ RD_RetryConnection
    \/ \E i \in 1..MaxDbFetch, list \in DbLists : RD_DatabasesOk(i, list)
    \/ \E i \in 1..MaxDbFetch : RD_DatabasesFail(i)
    \/ \E d \in DbNames : RD_SelectTarget(d)
    \/ RD_ChooseCreateNew
    \/ \E str \in NewNames : RD_TypeNewName(str)
    \/ RD_ResetClick
    \/ RD_RestoreClick
    \/ RD_RestoreOk
    \/ \E how \in {"error", "notSuccess", "reject"} : RD_RestoreFail(how)
    \/ RD_ResetTimer

SpecRDOverlap == InitRDOverlap /\ [][NextRDOverlap]_vars

-----------------------------------------------------------------------------
\* The console with any one of its screens mounted

\* (on the backups screen the stores start with one backup held by both of them, which
\* leaves a fresh name for a creation and gives a deletion its two calls)
InitConsole ==
    \/ InitBM /\ fsStore = {"b1"} /\ dbStore = {"b1"}
    \/ InitRD \/ InitMF \/ InitSB

\* the sidebar with its copy modal left closed: the copy modal neither sends nor changes
\* a drop request
NextDrop ==
    \/ SB_RefreshDatabases
    \/ \E list \in SidebarDbLists : SB_DatabasesOk(list)
    \/ SB_DatabasesFail
    \/ \E d \in SidebarDbNames, c \in CollNames : SB_DropClick(d, c)
    \/ SB_ModalCancel
    \/ SB_ModalConfirm
    \/ SB_DropAnswered

NextConsole == NextBM \/ NextRD \/ NextMF \/ NextDrop

SpecConsole == InitConsole /\ [][NextConsole]_vars

-----------------------------------------------------------------------------
\* Restore screens: properties

\* the four extensions the upload accepts
C5_Extensions == {<<".", "z", "i", "p">>, <<".", "t", "a", "r">>, <<".", "g", "z">>,
                  <<".", "b", "s", "o", "n">>}

\* C5: in every state of RestoreDatabase and RestoreCollections, processFile on a file whose lower-cased
\* name ends with none of .zip, .tar, .gz, .bson sets the validation error, issues no
\* upload call and changes no other field of the session; on a file whose lower-cased
\* name ends with one of the four it issues exactly one upload call.
C5_ProcessFileValidates ==
    screen = "restore" =>
        \A name \in FileNames :
            LET after == processFile(rd, name)
            IN IF \E ext \in C5_Extensions : EndsWith(ToLowerCase(name), ext)
               THEN after.uploads = rd.uploads + 1
               ELSE /\ after.error = "Invalid file type"
                    /\ after.uploads = rd.uploads
                    /\ \A f \in DOMAIN rd \ {"error"} : after[f] = rd[f]

\* a file was rejected while an uploaded handle was held, and the handle is still there
C5_Witness ==
    /\ screen = "restore"
    /\ rd.error = "Invalid file type"
    /\ rd.uploadedBackupInfo.present
    /\ rd.uploadedBackupName = <<"b", "1">>
    /\ rd.uploads = 0

\* the step in which RestoreDatabase / RestoreCollections sends a restore call
RD_RestoreIssued == screen = "restore" /\ rd.restore = Idle /\ rd'.restore # Idle
\* the step in which Restore sends the restore call of a file
MF_RestoreIssued ==
    /\ screen = "files"
    /\ mf.run # Idle /\ mf.run.pc = "upload"
    /\ mf'.run # Idle /\ mf'.run.pc = "restore"
\* the step in which a run of Restore.handleRestore starts
MF_RunStarted == screen = "files" /\ mf.run = Idle /\ mf'.run # Idle

\* C6: every restore call of RestoreDatabase, RestoreCollections and Restore is for a
\* backup name returned by a successful upload and carries a non-empty target_database;
\* with "create new database" selected and a blank new name, no restore can be started.
C6_Step ==
    /\ RD_RestoreIssued =>
          /\ rd'.restore.payload.backup_name \in rd.returned
          /\ rd'.restore.payload.target_database # <<>>
          /\ ~(rd.createNewDatabase /\ Trim(rd.newDatabaseName) = <<>>)
    /\ MF_RestoreIssued =>
          /\ mf'.run.payload.backup_name \in mf'.returned
          /\ mf'.run.payload.has_target_database
          /\ mf'.run.payload.target_database # <<>>
    /\ MF_RunStarted => ~(mf.createNewDatabase /\ Trim(mf.targetDatabase) = <<>>)

C6_RestoreCallsHaveTarget == [][C6_Step]_vars

\* the step in which a restore call of RestoreDatabase / RestoreCollections is answered
RD_RestoreSucceeded ==
    screen = "restore" /\ rd.restore # Idle /\ rd'.restore = Idle /\ rd'.restoreResult
RD_RestoreFailed ==
    screen = "restore" /\ rd.restore # Idle /\ rd'.restore = Idle /\ ~rd'.restoreResult

\* the session state is empty
SessionEmpty ==
    /\ screen = "restore"
    /\ ~rd.uploadedBackupInfo.present
    /\ rd.uploadedBackupName = <<>>
    /\ rd.targetDatabase = <<>>
    /\ rd.newDatabaseName = <<>>
    /\ rd.selectedCollections = {}

C7_Step ==
    RD_RestoreSucceeded =>
        /\ rd.onRestoreComplete => rd'.called
        /\ rd'.timers = rd.timers + 1

\* C7: when a restore call of RestoreDatabase or RestoreCollections succeeds, the
\* completion callback the parent supplied is invoked and the reset is scheduled; with
\* the reset pending the session state (handle, backup name, target database, new
\* database name, collection selection) becomes empty without any user action.
C7_SuccessNotifiesAndResets ==
    /\ [][C7_Step]_vars
    /\ (screen = "restore" /\ rd.timers > 0) ~> SessionEmpty

\* a restore has succeeded, its callback ran, its reset is pending and the form is still filled
C7_Witness ==
    /\ screen = "restore"
    /\ rd.timers > 0
    /\ rd.restoreResult /\ rd.called
    /\ rd.uploadedBackupInfo.present
    /\ rd.targetDatabase # <<>>

\* the fields of the form allow a restore, the busy flag of a restore left aside
FormAllowsRestore(r) == RestoreButtonEnabled([r EXCEPT !.isRestoring = FALSE])

\* C8: when a restore call of RestoreDatabase or RestoreCollections fails (error response,
\* success = false or network error), the step that handles the failure leaves the
\* uploaded handle, the backup name, the target database and the collection selection
\* unchanged, sets an error message, clears isRestoring and schedules no reset; the
\* restore button is enabled again for the same handle whenever the form still allows it.
C8_Step ==
    RD_RestoreFailed =>
        /\ rd'.uploadedBackupInfo = rd.uploadedBackupInfo
        /\ rd'.uploadedBackupName = rd.uploadedBackupName
        /\ rd'.targetDatabase = rd.targetDatabase
        /\ rd'.newDatabaseName = rd.newDatabaseName
        /\ rd'.selectedCollections = rd.selectedCollections
        /\ rd'.error # ""
        /\ ~rd'.isRestoring
        /\ rd'.timers = rd.timers
        /\ FormAllowsRestore(rd) => RestoreButtonEnabled(rd')
        /\ (FormAllowsRestore(rd) /\ rd.uploadedBackupName = rd.restore.payload.backup_name)
              => /\ RestoreGuardError(rd') = ""
                 /\ RestorePayload(rd').backup_name = rd.restore.payload.backup_name

C8_FailureKeepsSession == [][C8_Step]_vars

\* a restore of b1 has failed and the restore button is enabled for b1 again
C8_Witness ==
    /\ screen = "restore"
    /\ rd.error = "Restore failed"
    /\ rd.uploadedBackupName = <<"b", "1">>
    /\ RestoreButtonEnabled(rd)
    /\ RestoreGuardError(rd) = ""
    /\ rd.timers = 0

\* C15: a restore call of RestoreCollections carries selected_collections if and only
\* if the selection is not empty, and then it is exactly the selection, all of whose
\* members are in the collections manifest of the backup the call names.
C15_Step ==
    (RD_RestoreIssued /\ ~IsDatabase(rd)) =>
        LET payload == rd'.restore.payload
        IN /\ payload.has_selected_collections <=> rd.selectedCollections # {}
           /\ payload.has_selected_collections =>
                 /\ payload.selected_collections = rd.selectedCollections
                 /\ payload.selected_collections \subseteq CollectionsOf(payload.backup_name)
           /\ ~payload.has_selected_collections => CollectionsOf(payload.backup_name) = {}

C15_SelectedCollectionsSent == [][C15_Step]_vars

\* a restore call for one collection out of the two of the backup is outstanding
C15_Witness ==
    /\ screen = "restore"
    /\ ~IsDatabase(rd)
    /\ rd.restore # Idle
    /\ rd.restore.payload.has_selected_collections
    /\ rd.restore.payload.selected_collections = {"c2"}
    /\ rd.restore.payload.backup_name = <<"b", "1">>

-----------------------------------------------------------------------------
\* Destructive operations and the copy modal: properties

\* the step in which handleDeleteBackup sends its delete calls
DeleteCallsIssued ==
    screen = "backups" /\ bm_delete = Idle /\ bm_delete' # Idle /\ bm_delete'.promises # <<>>
\* the step in which confirmDropCollection sends its drop call
DropCallIssued == screen = "sidebar" /\ Len(sb'.drops) > Len(sb.drops)
\* the step in which a restore component sends a restore call
RestoreCallIssued == RD_RestoreIssued \/ MF_RestoreIssued

\* a confirmation of the named operation is open, so that the step can be its acceptance
DeleteConfirmationOpen == screen = "backups" /\ bm_confirm.open
DropConfirmationOpen == screen = "sidebar" /\ sb.modalState.isOpen
\* the restore components have neither a confirm dialog nor a confirmation modal
RestoreConfirmationOpen == FALSE

\* C9: a delete-backup, drop-collection or restore-backup call is issued only by the step
\* that accepts a confirmation of that operation (confirm dialog or confirmation modal);
\* declining or cancelling the confirmation issues no call.
C9_Step ==
    /\ DeleteCallsIssued => DeleteConfirmationOpen /\ bm_delete'.name = bm_confirm.name
    /\ DropCallIssued => DropConfirmationOpen
    /\ RestoreCallIssued => RestoreConfirmationOpen
    /\ (screen = "backups" /\ BM_ConfirmCancel) => ~DeleteCallsIssued
    /\ (screen = "sidebar" /\ SB_ModalCancel) => ~DropCallIssued

C9_DestructiveCallsConfirmed == [][C9_Step]_vars

\* C10: while the CopyCollectionModal is open the selectable target list does not contain
\* the source database, and every copy request has a target_database different from its
\* source_database, whatever was opened, closed, re-opened or refreshed before.
C10_TargetNeverSource ==
    screen = "sidebar" =>
        /\ sb.copyModalState.isOpen =>
              \A i \in DOMAIN AvailableDatabases(sb) :
                  AvailableDatabases(sb)[i] # sb.copyModalState.sourceDatabase
        /\ cp.copy # Idle =>
              cp.copy.request.target_database # cp.copy.request.source_database

\* a copy from d2 to d1 is in flight in a modal that was re-opened after an earlier
\* successful copy, whose scheduled close is still pending
C10_Witness ==
    /\ screen = "sidebar"
    /\ cp.copy # Idle
    /\ cp.closeTimers > 0
    /\ sb.copyModalState.isOpen
    /\ cp.copy.request.source_database = <<"d", "2">>
    /\ cp.copy.request.target_database = <<"d", "1">>

\* a step in which the outstanding copy call settles
CopyAnswered == cp.copy # Idle /\ cp'.copy = Idle

\* the step did not report a success: no success state, and the parent was not told
NoCopySuccess == ~cp'.success /\ sb'.copyRefresh = sb.copyRefresh

C16_Step ==
    CopyAnswered /\ cp'.answer.kind = "answer" /\ ~ResponseOk(cp'.answer)
        => IF cp'.answer.status = 409
              \/ (cp'.answer.json /\ Includes(cp'.answer.message, AlreadyExists))
           THEN cp'.error = "already exists" /\ NoCopySuccess
           ELSE cp'.error # "already exists"

\* C16: a failed copy response with status 409, or with a message containing 'already
\* exists', ends in the conflict error (the collection name already exists in the target)
\* without a success state or a parent notification; every other failed response ends in a
\* different error
C16_ConflictDistinguished == [][C16_Step]_vars

\* a step in which the copy call is answered with success
CopySucceeded == cp.copy # Idle /\ cp'.copy = Idle /\ cp'.success

\* the step starts a collection list call of the parent for database d
RefreshStartedFor(d) ==
    IF screen = "card" THEN dc'.collFetch = Append(dc.collFetch, d)
    ELSE sb'.copyRefresh = Append(sb.copyRefresh, d)

\* C17: a successful copy notifies the parent, which starts to refresh the collection list
\* of the target database of the copy request
C17_Step == CopySucceeded => RefreshStartedFor(cp.copy.request.target_database)

C17_ParentRefreshesTarget == [][C17_Step]_vars

\* C18: in RestoreDatabase, RestoreCollections and Restore at most one restore call is
\* outstanding at any time: handleRestore is not started again, and within a run of
\* Restore.handleRestore the calls go out one after the other, before the outstanding
\* call is answered or fails.
C18_OneRestoreOutstanding ==
    /\ screen = "restore" =>
          /\ rd.restoreCalls <= 1
          /\ rd.restoreCalls = 1 <=> rd.restore # Idle
    /\ screen = "files" =>
          /\ mf.runs <= 1
          /\ mf.runs = 1 <=> mf.run # Idle

\* a restore call is outstanding while everything else the restore button asks for holds:
\* a click is kept off by the outstanding call alone
C18_Witness ==
    /\ screen = "restore"
    /\ rd.restoreCalls = 1
    /\ RestoreButtonEnabled([rd EXCEPT !.isRestoring = FALSE])

\* the step in which processFile sends an upload call
UploadStarted == screen = "restore" /\ rd'.uploads = rd.uploads + 1

\* C19: in RestoreDatabase and RestoreCollections an upload call is started, through the
\* file input or through the drop zone, only while no upload call and no restore call of
\* the session is outstanding.
C19_Step == UploadStarted => rd.uploads = 0 /\ rd.restoreCalls = 0

C19_NoUploadWhileBusy == [][C19_Step]_vars

\* C20: every restore-backup request (RestoreDatabase, RestoreCollections, Restore), every
\* delete-backup request (BackupManager, either store) and every drop-collection request
\* (Sidebar) that is sent carries confirm = true.
C20_RequestsCarryConfirm ==
    /\ (screen = "restore" /\ rd.restore # Idle) => rd.restore.payload.confirm
    /\ (screen = "files" /\ mf.run # Idle /\ mf.run.pc = "restore") => mf.run.payload.confirm
    /\ (screen = "backups" /\ bm_delete # Idle) =>
          \A i \in DOMAIN bm_delete.promises : bm_delete.promises[i].confirm
    /\ screen = "sidebar" => \A i \in DOMAIN sb.drops : sb.drops[i].confirm

\* a drop request for a collection of d1 is outstanding, with its confirm flag
C20_Witness ==
    /\ screen = "sidebar"
    /\ sb.drops # <<>>
    /\ sb.drops[1].database_name = <<"d", "1">>
    /\ sb.drops[1].confirm

-----------------------------------------------------------------------------
\* BackupManager, Restore components: further properties

\* the outcome an execution of the results loop reports for the answers it was given, in
\* the order file_system, database and in the reverse order
OutcomeOf(answers) == DeleteOutcome([i \in DOMAIN answers |-> [st |-> answers[i]]])
Reversed(answers) == [i \in DOMAIN answers |-> answers[Len(answers) + 1 - i]]

\* C22: handleDeleteBackup reports its outcome (success, partial failure or failure) only
\* when none of the delete calls it issued is still outstanding, and the outcome is the
\* same for either completion order of the calls.
C22_Step ==
    (screen = "backups" /\ DeleteReported) =>
        /\ ~AnyPending(bm_delete.promises)
        /\ bm_report'.kind = OutcomeOf(Reversed([i \in DOMAIN bm_delete.promises |->
                                                    bm_delete.promises[i].st]))

C22_ReportsAfterAllCalls == [][C22_Step]_vars

\* the success of a restore is on screen and its automatic reset is still to come; the
\* uploaded handle is the one that was restored (a later upload clears restoreResult)
SuccessShown ==
    /\ screen = "restore"
    /\ rd.restoreResult
    /\ rd.timers > 0
    /\ rd.uploadedBackupInfo.present

\* C23: in RestoreDatabase and RestoreCollections, between the success of a restore call
\* and the automatic reset no further restore call is issued for the same uploaded handle.
C23_Step == RD_RestoreIssued => ~SuccessShown

C23_NoRestoreAfterSuccess == [][C23_Step]_vars

\* the step in which a reset timer of a successful restore fires
ResetFired == screen = "restore" /\ rd'.timers = rd.timers - 1

\* C27: the automatic reset scheduled by a successful restore does not discard a handle
\* other than the restored one, obtained from an upload that completed after that restore
\* was issued and before the reset fires.
C27_Step ==
    (ResetFired /\ rd.uploadedBackupInfo.present /\ rd.uploadedBackupName # rd.restored)
        => /\ rd'.uploadedBackupInfo = rd.uploadedBackupInfo
           /\ rd'.uploadedBackupName = rd.uploadedBackupName

C27_ResetKeepsLaterUpload == [][C27_Step]_vars

\* the step in which the loop of Restore.handleRestore is done with its current file
FileDone == screen = "files" /\ mf.run # Idle /\ (mf'.run = Idle \/ mf'.run.i # mf.run.i)
\* the step in which a run of Restore.handleRestore ends
RunEnded == screen = "files" /\ mf.run # Idle /\ mf'.run = Idle

\* C26: in Restore, when the upload or the restore of a file fails the next file is
\* attempted all the same; when a run ends isRestoring is false, every file of the run that
\* is still in the list has status success or error, the success message is shown exactly
\* when at least one file was restored and the error 'No backups were successfully
\* restored' otherwise, and the database-list refresh is scheduled exactly in the former
\* case.
C26_Step ==
    /\ (FileDone /\ mf.run.i < Len(mf.run.files)) =>
          /\ mf'.run # Idle
          /\ mf'.run.i = mf.run.i + 1
          /\ mf'.run.pc = "upload"
    /\ RunEnded =>
          /\ mf.run.i = Len(mf.run.files)
          /\ ~mf'.isRestoring
          /\ \A k \in DOMAIN mf'.uploadedFiles :
                mf'.uploadedFiles[k].id \in Range(mf.run.files)
                    => mf'.uploadedFiles[k].status \in {"success", "error"}
          /\ mf'.successMessage <=> mf'.lastResults > 0
          /\ mf'.lastResults = 0 <=> mf'.error = "No backups were successfully restored"
          /\ mf'.timers = mf.timers + (IF mf'.lastResults > 0 THEN 1 ELSE 0)

C26_RunCompletes == [][C26_Step]_vars

\* a run over two files has ended in which one file failed and the other was restored
C26_Witness ==
    /\ screen = "files"
    /\ mf.run = Idle
    /\ mf.successMessage
    /\ mf.lastResults = 1
    /\ \E k \in DOMAIN mf.uploadedFiles : mf.uploadedFiles[k].status = "error"
    /\ \E k \in DOMAIN mf.uploadedFiles : mf.uploadedFiles[k].status = "success"

\* the step in which a run of Restore.handleRestore starts the upload of a file
FileReached ==
    /\ screen = "files"
    /\ mf'.run # Idle
    /\ mf'.run.pc = "upload"
    /\ mf.run = Idle \/ mf'.run.i # mf.run.i

\* C28: a run of Restore.handleRestore sends only files that are in the list at the moment
\* processing reaches them: a file removed before its processing began is not uploaded.
C28_Step ==
    FileReached =>
        \E k \in DOMAIN mf.uploadedFiles : mf.uploadedFiles[k].id = mf'.run.files[mf'.run.i]

C28_RemovedFileNotSent == [][C28_Step]_vars

-----------------------------------------------------------------------------
\* Main: properties

\* the step in which handleConnect sends its test-connection call
TestIssued == screen = "connect" /\ mn'.calls = mn.calls + 1
\* the step in which a test-connection call fails
TestFailed ==
    /\ screen = "connect"
    /\ mn.connect # Idle /\ mn.connect.pc = "test"
    /\ mn'.connect = Idle

\* C21: whenever Main is connected, the connection string it holds and hands to its
\* children is one for which a test-connection call returned success, also when the URL
\* field was edited while the connect call was outstanding; a blank URL sends no call; a
\* failed test leaves Main disconnected with an error.
C21_Step ==
    /\ (screen = "connect" /\ mn'.isConnected) => mn'.serverUrl \in mn'.tested
    /\ TestIssued => Trim(mn.serverUrl) # <<>>
    /\ TestFailed => ~mn'.isConnected /\ mn'.connectionError # ""

C21_ConnectedUrlWasTested == [][C21_Step]_vars

-----------------------------------------------------------------------------
\* Busy flags

\* C24: every busy flag (isUploadingFile and isRestoring of the restore components,
\* isLoading of CopyCollectionModal, isConnecting of Main, isBackingUp of BackUp) is true
\* whenever a call of its operation is outstanding, and is false again once the call has
\* been answered.
C24_BusyFlagsFollowCalls ==
    /\ rd.mounted => /\ rd.isUploadingFile <=> rd.uploads > 0
                     /\ rd.isRestoring <=> rd.restore # Idle
    /\ mf.mounted => (mf.isRestoring <=> mf.run # Idle)
    /\ cp.mounted => (cp.isLoading <=> cp.copy # Idle)
    /\ mn.mounted => (mn.isConnecting <=> mn.connect # Idle)
    /\ bu.mounted => (bu.isBackingUp <=> bu.runs # <<>>)

-----------------------------------------------------------------------------
\* BackUp: properties

\* the step in which a create call of handleBackup fails
CreateFailed ==
    /\ screen = "backup"
    /\ bu.error \notin CreateFailures
    /\ bu'.error \in CreateFailures

\* the step in which download timers are set
DownloadsScheduled == screen = "backup" /\ Len(bu'.scheduled) > Len(bu.scheduled)

\* C25: handleBackup has at most one create call outstanding; when a create call fails no
\* later database is attempted, the error is shown, the selection is left as it is,
\* isBackingUp is false again and no download is scheduled; downloads are scheduled only
\* by a run all of whose create calls succeeded.
C25_Step ==
    /\ screen = "backup" => Len(bu'.runs) <= 1
    /\ CreateFailed =>
           /\ bu'.runs = <<>>
           /\ ~bu'.isBackingUp
           /\ bu'.selectedDatabases = bu.selectedDatabases
           /\ bu'.selectedCollections = bu.selectedCollections
           /\ bu'.selectedDatabase = bu.selectedDatabase
           /\ bu'.scheduled = bu.scheduled
    /\ DownloadsScheduled =>
           \E i \in DOMAIN bu.runs :
               /\ Len(bu.runs[i].results) + 1 = Len(bu.runs[i].requests)
               /\ bu'.scheduled = bu.scheduled \o
                      [k \in DOMAIN bu.runs[i].requests |->
                          bu.runs[i].requests[k].database_name]
               /\ bu'.successMessage

C25_FailureEndsRun == [][C25_Step]_vars

\* a run over two databases has failed
C25_Witness ==
    /\ screen = "backup"
    /\ bu.error \in CreateFailures
    /\ Len(bu.selectedDatabases) = 2
    /\ bu.runs = <<>>

\* the step in which handleBackup starts a run from the collections view
CollectionsRunStarted ==
    /\ screen = "backup"
    /\ bu.activeView = "collections"
    /\ Len(bu'.runs) = Len(bu.runs) + 1

\* the collection names selected in the selected database
SelectedNames(b) ==
    {coll \in BackupCollections :
        Has(b.selectedCollections, CollectionKey(b.selectedDatabase, coll))}

\* C29: the create request of a backup started from the collections view names the
\* selected database, and for a partial backup its options.collections are exactly the
\* collection names selected in that database, also names that contain a '.'.
C29_Step ==
    CollectionsRunStarted =>
        LET requests == bu'.runs[Len(bu'.runs)].requests
        IN \A k \in DOMAIN requests :
               /\ requests[k].database_name = bu.selectedDatabase
               /\ requests[k].partial =>
                      Range(requests[k].collections) = SelectedNames(bu)

C29_RequestNamesSelection == [][C29_Step]_vars

\* the key is one of the database's keys
BelongsTo(key, db) ==
    /\ Len(key) > Len(db)
    /\ SubSeq(key, 1, Len(db) + 1) = db \o <<".">>

\* C30: every selected collection key belongs to selectedDatabase, and selectedDatabase
\* is empty exactly when no collection is selected.
C30_SelectionOfOneDatabase ==
    screen = "backup" =>
        /\ \A k \in DOMAIN bu.selectedCollections :
               BelongsTo(bu.selectedCollections[k], bu.selectedDatabase)
        /\ bu.selectedDatabase = <<>> <=> bu.selectedCollections = <<>>

\* collections are selected again after a backup of collections has completed
C30_Witness ==
    /\ screen = "backup"
    /\ bu.scheduled # <<>>
    /\ bu.activeView = "collections"
    /\ Len(bu.selectedCollections) = 2

====
